---- MODULE Spec2Model ----
(***************************************************************************)
(* Effect execution engine of hacs-wledeffectscripts: the lifecycle of one *)
(* effect (WLEDEffectBase.start / stop), the segment-fade effect with its  *)
(* dynamically spawned sub-tasks (SegmentFadeEffect), the task manager and *)
(* HTTP client adapters (PyscriptTaskManager, PyscriptHTTPClient) and the  *)
(* manager entry points (WLEDEffectManager.start_effect / stop_effect).    *)
(*                                                                         *)
(* Scheduling model: cooperative tasks on one thread.  A task runs from    *)
(* one suspension point (an awaited sleep or HTTP request) to the next     *)
(* without interruption, so every action below is one such run.            *)
(*                                                                         *)
(* Platform primitives (pyscript's task.unique / task.sleep, aiohttp) are  *)
(* outside the repository.  They are modelled by what the adapters use     *)
(* them for: create_task(name, coro) makes coro a concurrent task known    *)
(* under name (a previous holder of the name is killed), kill_task(name)   *)
(* ends the named task at the suspension point where it waits, or raises;  *)
(* a request is answered when its sender resumes, with success or failure. *)
(*                                                                         *)
(* Time unit of all durations: one tenth of a second.                      *)
(***************************************************************************)
EXTENDS Integers, Sequences, FiniteSets, TLC

\* ------------------------------------------------------------------ bounds
StripLen == 7        \* LEDs of the strip (STOP_LED - START_LED + 1)
MaxSegments == 2     \* cap of segment_counter
MaxCalls == 3        \* service calls (start / stop) made in one behaviour
FadeInSteps == 1     \* num_steps of the fade-in loop
FadeOutSteps == 1    \* num_steps of the fade-out loop
MaxDuration == 12    \* largest duration given to interruptible_sleep
MaxRetry == 2        \* largest retry_count given to send_command
MaxSends == 2        \* calls of send_wled_command in one behaviour
MaxConfigures == 2   \* calls of wled_effect_configure in one behaviour
MaxTriggers == 2     \* trigger notifications delivered in one behaviour
MaxTrigCalls == 1    \* service calls made beside the triggers (TriggerSpec)
MaxListed == 2       \* times a name is in _spawned_tasks at a kill_all_tasks
MaxManagerOps == 2   \* service calls and triggers together (ManagerSpec)
MaxSteps == 3        \* transition steps tried beside SYNC_TRANSITION_STEPS
MaxRetargets == 2    \* changes of the target during one smooth_transition
MaxDepth == 2        \* nested retargets told apart by RetargetSpec
MaxCommands == 4     \* sends of the effect's tasks counted in one behaviour
MaxChannel == 255    \* largest colour channel and brightness (ChannelSpec)

\* ------------------------------------------------------- program constants
START_LED == 1
STOP_LED == START_LED + StripLen - 1
SEGMENT_LENGTH_MIN == 3
SEGMENT_LENGTH_MAX == 5
MIN_SPACING == 1
PLACE_ATTEMPTS == 20
SLEEP_CHUNK == 5          \* min(0.5, remaining_time)
STEP_DURATION == 2        \* FADE_IN_SECONDS / num_steps = 0.2
STAGGER_MAX == 15         \* random.uniform(0.5, 1.5)
MAIN_LOOP_SLEEP == 100    \* task.sleep(10)
BACKOFF == 1              \* task.sleep(0.1) of send_command
SYNC_TRANSITION_STEPS == 10

\* Task names.  "wled_effect_main" is 0, f"segment_{i}" is i.
MainName == 0
SegNames == 1..MaxSegments
Names == {MainName} \cup SegNames
Callers == {1, 2}
Triggers == 1..MaxTriggers

VARIABLES
    effect,           \* manager.effect: "None" or the effect instance
    running,          \* effect.running
    active_tasks,     \* effect.active_tasks: set of sub-task names
    spawned_tasks,    \* task_mgr._spawned_tasks: list of names
    active_segments,  \* effect.active_segments: segment_id -> <<start, end>>
    segment_counter,  \* effect.segment_counter
    shared_session,   \* http_client.shared_session: "None", "open", "closing"
    task,             \* the scheduled tasks, by name
    caller,           \* the service calls in progress
    ncalls,           \* service calls made so far
    started,          \* history: effect.start() has been called
    afterStop,        \* history of the frames delivered to the device:
                      \*   "dark" the blackout frame of a stop() of a running
                      \*          effect was delivered, no effect frame since
                      \*   "lit"  an effect frame was delivered after it
                      \*   "no"   a start() has set running since (or no
                      \*          such stop() yet)
    sl,               \* state of one interruptible_sleep call (SleepSpec)
    sd,               \* state of the sends of send_wled_command (SendSpec)
    mg,               \* the other fields of the manager (ConfigSpec)
    tr,               \* the trigger handlers in progress (TriggerSpec)
    ka,               \* one call of kill_all_tasks (KillSpec)
    st,               \* one call of smooth_transition (TransitionSpec)
    cv,               \* one channel value of a fade frame (ChannelSpec)
    cn                \* counters of send_wled_command under concurrent tasks and stop()

vars == <<effect, running, active_tasks, spawned_tasks, active_segments,
          segment_counter, shared_session, task, caller, ncalls, started,
          afterStop, sl, sd, mg, tr, ka, st, cv, cn>>

engineVars == <<effect, running, active_tasks, spawned_tasks, active_segments,
                segment_counter, shared_session, task, caller, ncalls,
                started, afterStop, sd, mg, tr, ka, st, cv, cn>>

\* ----------------------------------------------------------------- records
NoTask == [pc |-> "none", step |-> 0]

\* A service call: op and pc say where it is, the other fields are the history
\* of the call in progress (they are dropped when the call returns):
\*   acks        requests of test_connection acknowledged so far
\*   bo          blackout frame sent in start(): "none", "pre" (the one of
\*               the implicit stop() of a restart), then its own: "lost"
\*               (sent, not acknowledged) or "delivered"
\*   cleaned     it called http.cleanup()
\*   sent        it sent a request to the device
\*   wasRunning  running, when it was called (kept until its blackout frame)
\* result at pc = "done":
\*   "no_effect"     manager.effect is None               (returns False)
\*   "raised"        the effect raised, caught            (returns False)
\*   "not_verified"  start(): test_connection failed      (returns True)
\*   "started"       start() ran to its end               (returns True)
\*   "stopped"       stop() ran to its end                (returns True)
\*   "stopped_all"   stop_all() ran to its end            (returns True)
\*   "stopped_all_raised"  the same, after stop() raised  (returns True)
IdleCaller ==
    [op |-> "none", pc |-> "idle", stage |-> "none", result |-> "none",
     acks |-> 0, bo |-> "none", cleaned |-> FALSE, sent |-> FALSE,
     wasRunning |-> FALSE, ret |-> "none"]

\* afterStop when a task of the effect has a frame delivered
EffectFrame(ok) == IF ok /\ afterStop = "dark" THEN "lit" ELSE afterStop

\* afterStop when a blackout frame is delivered by stop() (byStop) or start()
BlackoutFrame(ok, byStop, wasRunning) ==
    IF ok /\ ((byStop /\ wasRunning) \/ afterStop = "lit") THEN "dark"
    ELSE afterStop

Alive(n) == task[n].pc # "none"
Active(c) == caller[c].pc \notin {"idle", "done"}

\* ------------------------------------------------------------ task manager
\* _spawned_tasks is a list used for append, "in" and remove only: it is kept
\* as the number of times each name is in it.
NoNames == [n \in Names |-> 0]

\* kill_task for every name of S: "if name in list: list.remove(name)"
RemoveNames(s, S) ==
    [n \in Names |-> IF n \in S /\ s[n] > 0 THEN s[n] - 1 ELSE s[n]]

\* the tasks after kill_task succeeded for every name of S
Killed(S) == [n \in Names |-> IF n \in S THEN NoTask ELSE task[n]]

\* ------------------------------------------------------------- HTTP client
\* get_state / send_command: the session is created by the first request
SessionAfterRequest == IF shared_session = "None" THEN "open" ELSE shared_session

\* ------------------------------------------------------- segment allocator
\* check_overlap without the spacing
check_overlap_spacing_dropped(start_pos, end_pos) ==
    \E id \in DOMAIN active_segments :
        ~(end_pos < active_segments[id][1]
          \/ start_pos > active_segments[id][2])

check_overlap(start_pos, end_pos) ==
    \E id \in DOMAIN active_segments :
        ~(end_pos + MIN_SPACING < active_segments[id][1]
          \/ start_pos > active_segments[id][2] + MIN_SPACING)

\* The values start_pos can have after the loop "for attempt in range(20)":
\* every free candidate can be the first one drawn that does not overlap, and
\* the loop ends with None (written 0) when every draw overlapped, which can
\* happen as soon as one candidate overlaps.
FindPosition(segment_length) ==
    LET max_start_pos == STOP_LED - segment_length + 1
        cands == START_LED..max_start_pos
        free == {c \in cands : ~check_overlap(c, c + segment_length - 1)}
    IN IF PLACE_ATTEMPTS = 0 THEN {0}
       ELSE free \cup (IF free # cands THEN {0} ELSE {})

\* ------------------------------------------------------- caller bookkeeping
Upd(c, r) == caller' = [caller EXCEPT ![c] = r]

NewCall(c, op) == [IdleCaller EXCEPT !.op = op, !.wasRunning = running]

\* an exception of the effect goes through the manager to the service
ManagerReturn_uncaught(op, result) ==
    IF result = "raised" /\ op # "stop_all" THEN "exception"
    ELSE IF result \in {"ignored", "not_on_change"} THEN "None"
    ELSE IF result = "no_effect" /\ op # "stop_all" THEN "False"
    ELSE "True"

\* What the manager returns to the service for the way the call ended:
\* start_effect, stop_effect and run_once_effect return False without an
\* effect and from their "except Exception", True otherwise (start_effect
\* also when start() returned unverified); stop_all returns True;
\* handle_trigger returns None when it does not call run_once_effect.
ManagerReturn(op, result) ==
    IF result = "raised" /\ op # "stop_all" THEN "False"
    ELSE IF result \in {"ignored", "not_on_change"} THEN "None"
    ELSE IF result = "no_effect" /\ op # "stop_all" THEN "False"
    ELSE "True"

Done(r, result) ==
    [IdleCaller EXCEPT !.op = r.op, !.pc = "done", !.result = result,
                       !.ret = ManagerReturn(r.op, result)]

\* a new service call takes the first free slot
CanCall(c) ==
    /\ ~Active(c)
    /\ \A d \in Callers : d < c => Active(d)
    /\ ncalls < MaxCalls

\* ------------------------------------------------------------ configuration
\* wled_effect_configure / create_effect: the effect instance is constructed
\* (running False, no tasks, no segments, counter 0)
Configure ==
    /\ effect = "None"
    /\ effect' = "SegmentFade"
    /\ UNCHANGED <<sl, sd, mg, tr, ka, st, cv, cn, running, active_tasks, spawned_tasks, active_segments,
                   segment_counter, shared_session, task, caller, ncalls,
                   started, afterStop>>

\* ------------------------------------------------------------------- stop()
\* WLEDEffectBase.stop up to its first suspension point (the blackout send):
\* running = False, kill_task for the main task and every name of
\* active_tasks, active_tasks.clear(), then blackout_segment's first send.
\* kill_task is not guarded: when it raises, stop() ends there.
stop(c, r) ==
    /\ running' = FALSE
    /\ \/ /\ task' = Killed({MainName} \cup active_tasks)
          /\ spawned_tasks' = RemoveNames(spawned_tasks, {MainName} \cup active_tasks)
          /\ active_tasks' = {}
          /\ shared_session' = SessionAfterRequest
          /\ Upd(c, [r EXCEPT !.pc = "bo1", !.sent = TRUE])
       \/ \* task.unique raises for the main task
          /\ UNCHANGED <<task, spawned_tasks, active_tasks, shared_session>>
          /\ Upd(c, Done(r, "raised"))
       \/ \* task.unique raises for a sub-task, after the names of K
          \E K \in SUBSET active_tasks :
            /\ K # active_tasks
            /\ task' = Killed({MainName} \cup K)
            /\ spawned_tasks' = RemoveNames(spawned_tasks, {MainName} \cup K)
            /\ UNCHANGED <<active_tasks, shared_session>>
            /\ Upd(c, Done(r, "raised"))

\* WLEDEffectManager.stop_effect
StopEffect(c) ==
    /\ CanCall(c)
    /\ ncalls' = ncalls + 1
    /\ UNCHANGED <<sl, sd, mg, tr, ka, st, cv, cn, effect, active_segments, segment_counter, started, afterStop>>
    /\ IF effect = "None"
       THEN /\ Upd(c, Done(NewCall(c, "stop"), "no_effect"))
            /\ UNCHANGED <<running, active_tasks, spawned_tasks,
                           shared_session, task>>
       ELSE stop(c, [NewCall(c, "stop") EXCEPT !.stage = "stop"])

\* ------------------------------------------------------------------ start()
\* test_connection begins: get_state is awaited
BeginTestConnection(c, r) ==
    /\ shared_session' = SessionAfterRequest
    /\ Upd(c, [r EXCEPT !.pc = "tc_get", !.sent = TRUE])

\* WLEDEffectManager.start_effect and WLEDEffectBase.start up to its first
\* suspension point
StartEffect(c) ==
    /\ CanCall(c)
    /\ ncalls' = ncalls + 1
    /\ UNCHANGED <<sl, sd, mg, tr, ka, st, cv, cn, effect, active_segments, segment_counter, afterStop>>
    /\ IF effect = "None"
       THEN /\ Upd(c, Done(NewCall(c, "start"), "no_effect"))
            /\ UNCHANGED <<running, active_tasks, spawned_tasks,
                           shared_session, task, started>>
       ELSE /\ started' = TRUE
            /\ IF running
               THEN stop(c, [NewCall(c, "start") EXCEPT !.stage = "pre"])
               ELSE /\ BeginTestConnection(c, NewCall(c, "start"))
                    /\ UNCHANGED <<running, active_tasks, spawned_tasks, task>>

\* start() going on whatever test_connection returned
StartAfterVerify_unchecked(c, verified) ==
    /\ running' = TRUE
    /\ active_tasks' = {}
    /\ afterStop' = "no"
    /\ shared_session' = SessionAfterRequest
    /\ Upd(c, [caller[c] EXCEPT !.pc = "bo1", !.stage = "clear"])

\* start() after "if not await self.test_connection(): return"
StartAfterVerify(c, verified) ==
    LET r == caller[c] IN
    IF verified
    THEN /\ running' = TRUE
         /\ active_tasks' = {}
         /\ afterStop' = "no"
         /\ shared_session' = SessionAfterRequest
         /\ Upd(c, [r EXCEPT !.pc = "bo1", !.stage = "clear", !.acks = @ + 1])
    ELSE /\ Upd(c, Done(r, "not_verified"))
         /\ UNCHANGED <<running, active_tasks, afterStop, shared_session>>

\* test_connection: get_state answered
TcGetState(c) ==
    /\ caller[c].pc = "tc_get"
    /\ UNCHANGED <<sl, sd, mg, tr, ka, st, cv, cn, effect, spawned_tasks, active_segments, segment_counter,
                   task, ncalls, started>>
    /\ \E ok \in BOOLEAN :
         IF ok
         THEN /\ Upd(c, [caller[c] EXCEPT !.pc = "tc_ctl", !.acks = @ + 1])
              /\ shared_session' = SessionAfterRequest
              /\ UNCHANGED <<running, active_tasks, afterStop>>
         ELSE StartAfterVerify(c, FALSE)

\* test_connection: the takeover command answered
TcControl(c) ==
    /\ caller[c].pc = "tc_ctl"
    /\ UNCHANGED <<sl, sd, mg, tr, ka, st, cv, cn, effect, spawned_tasks, active_segments, segment_counter,
                   task, ncalls, started>>
    /\ \E ok \in BOOLEAN :
         IF ok
         THEN /\ Upd(c, [caller[c] EXCEPT !.pc = "tc_sleep", !.acks = @ + 1])
              /\ UNCHANGED <<running, active_tasks, afterStop, shared_session>>
         ELSE StartAfterVerify(c, FALSE)

\* test_connection: task.sleep(0.3) over, the segment command is sent
TcSleep(c) ==
    /\ caller[c].pc = "tc_sleep"
    /\ Upd(c, [caller[c] EXCEPT !.pc = "tc_seg"])
    /\ shared_session' = SessionAfterRequest
    /\ UNCHANGED <<sl, sd, mg, tr, ka, st, cv, cn, effect, running, active_tasks, spawned_tasks,
                   active_segments, segment_counter, task, ncalls, started, afterStop>>

\* test_connection: the segment command answered; start() goes on or returns
TcSegment(c) ==
    /\ caller[c].pc = "tc_seg"
    /\ UNCHANGED <<sl, sd, mg, tr, ka, st, cv, cn, effect, spawned_tasks, active_segments, segment_counter,
                   task, ncalls, started>>
    /\ \E ok \in BOOLEAN : StartAfterVerify(c, ok)

\* --------------------------------------------------------- blackout_segment
\* the blackout frame answered; task.sleep(0.2) follows
BlackoutSent(c) ==
    /\ caller[c].pc = "bo1"
    /\ \E ok \in BOOLEAN :
         LET r == caller[c]
             byStop == r.stage \in {"stop", "pre", "all"}
         IN /\ afterStop' = BlackoutFrame(ok, byStop, r.wasRunning)
            /\ Upd(c, [r EXCEPT !.pc = "bo_s1", !.wasRunning = FALSE,
                                !.bo = IF r.stage \in {"stop", "all"} THEN @
                                       ELSE IF r.stage = "pre" THEN "pre"
                                       ELSE IF ok THEN "delivered" ELSE "lost"])
    /\ UNCHANGED <<sl, sd, mg, tr, ka, st, cv, cn, effect, running, active_tasks, spawned_tasks,
                   active_segments, segment_counter, shared_session, task,
                   ncalls, started>>

\* task.sleep(0.2) over, the reset command is sent
BlackoutSleep(c) ==
    /\ caller[c].pc = "bo_s1"
    /\ Upd(c, [caller[c] EXCEPT !.pc = "bo2"])
    /\ shared_session' = SessionAfterRequest
    /\ UNCHANGED <<sl, sd, mg, tr, ka, st, cv, cn, effect, running, active_tasks, spawned_tasks,
                   active_segments, segment_counter, task, ncalls, started, afterStop>>

\* the reset command ("i": []) answered; task.sleep(0.5) follows
ResetSent(c) ==
    /\ caller[c].pc = "bo2"
    /\ Upd(c, [caller[c] EXCEPT !.pc = "bo_s2"])
    /\ UNCHANGED <<sl, sd, mg, tr, ka, st, cv, cn, effect, running, active_tasks, spawned_tasks,
                   active_segments, segment_counter, shared_session, task,
                   ncalls, started, afterStop>>

\* create_task(name, coro): task.unique(name), _spawned_tasks.append(name)
create_task(name, new) ==
    /\ spawned_tasks' = [spawned_tasks EXCEPT ![name] = @ + 1]
    /\ task' = [task EXCEPT ![name] = new]

\* start() creating the main task while its blackout frame is in flight
StartCreateMain_before_blackout(c) ==
    /\ caller[c].pc = "bo1"
    /\ caller[c].stage = "clear"
    /\ create_task(MainName, [pc |-> "begin", step |-> 0])
    /\ Upd(c, Done(caller[c], "started"))
    /\ UNCHANGED <<sl, sd, mg, tr, ka, st, cv, cn, effect, running, active_tasks, active_segments,
                   segment_counter, shared_session, ncalls, started, afterStop>>

\* start(): blackout over, the main task is created and start() returns
StartCreateMain(c) ==
    /\ caller[c].pc = "bo_s2"
    /\ caller[c].stage = "clear"
    /\ create_task(MainName, [pc |-> "begin", step |-> 0])
    /\ Upd(c, Done(caller[c], "started"))
    /\ UNCHANGED <<sl, sd, mg, tr, ka, st, cv, cn, effect, running, active_tasks, active_segments,
                   segment_counter, shared_session, ncalls, started, afterStop>>

\* stop() after its cleanup: stop_effect returns True, or start() goes on
\* with task.sleep(1)
AfterCleanup(r) ==
    IF r.stage = "stop" THEN Done(r, "stopped") ELSE [r EXCEPT !.pc = "settle"]

\* stop(): blackout over, http.cleanup() is called
StopCleanup(c) ==
    /\ caller[c].pc = "bo_s2"
    /\ caller[c].stage \in {"stop", "pre"}
    /\ LET r == [caller[c] EXCEPT !.cleaned = TRUE] IN
       IF shared_session = "None"
       THEN /\ Upd(c, AfterCleanup(r))
            /\ UNCHANGED shared_session
       ELSE /\ Upd(c, [r EXCEPT !.pc = "cleanup"])
            /\ shared_session' = "closing"
    /\ UNCHANGED <<sl, sd, mg, tr, ka, st, cv, cn, effect, running, active_tasks, spawned_tasks,
                   active_segments, segment_counter, task, ncalls, started, afterStop>>

\* cleanup(): shared_session.close() over, shared_session = None
CleanupDone(c) ==
    /\ caller[c].pc = "cleanup"
    /\ shared_session' = "None"
    /\ Upd(c, AfterCleanup(caller[c]))
    /\ UNCHANGED <<sl, sd, mg, tr, ka, st, cv, cn, effect, running, active_tasks, spawned_tasks,
                   active_segments, segment_counter, task, ncalls, started, afterStop>>

\* start(): task.sleep(1) after the implicit stop over, test_connection begins
SettleWake(c) ==
    /\ caller[c].pc = "settle"
    /\ shared_session' = SessionAfterRequest
    /\ Upd(c, [caller[c] EXCEPT !.pc = "tc_get"])
    /\ UNCHANGED <<sl, sd, mg, tr, ka, st, cv, cn, effect, running, active_tasks, spawned_tasks,
                   active_segments, segment_counter, task, ncalls, started, afterStop>>

\* ---------------------------------------------------------------- initial
EngineInit ==
    /\ effect = "None"
    /\ running = FALSE
    /\ active_tasks = {}
    /\ spawned_tasks = NoNames
    /\ active_segments = <<>>
    /\ segment_counter = 0
    /\ shared_session = "None"
    /\ task = [n \in Names |-> NoTask]
    /\ caller = [c \in Callers |-> IdleCaller]
    /\ ncalls = 0
    /\ started = FALSE
    /\ afterStop = "no"

\* sl outside an interruptible_sleep call
NoSleep == [pc |-> "off", duration |-> 0, remaining_time |-> 0,
            sleep_time |-> 0, left |-> 0, now |-> 0, flipAt |-> -1,
            restarted |-> FALSE, result |-> FALSE]

\* sd before the first send: the counters of WLEDEffectBase.__init__
NoSend == [pc |-> "off", retry_count |-> 0, failFirst |-> 0, attempt |-> 0,
           attempts |-> 0, backoffs |-> 0, waited |-> 0, outcome |-> "none",
           acked |-> FALSE, result |-> FALSE,
           command_count |-> 0, success_count |-> 0, fail_count |-> 0,
           success0 |-> 0, fail0 |-> 0]

\* mg after WLEDEffectManager.__init__; history: instances (effect instances
\* constructed), errors (log.error calls), configures (wled_effect_configure
\* calls), selector (the effect argument of the last one) and outcome (how
\* the last one ended)
NoManager == [effect_class |-> "None", effect_args |-> {},
              state_provider |-> "None", trigger_entity |-> "None",
              trigger_attribute |-> "None", trigger_on_change |-> FALSE,
              instances |-> 0, errors |-> 0, configures |-> 0,
              selector |-> "none", outcome |-> "none"]

\* ka before a call of kill_all_tasks
NoKill == [pc |-> "off", listed |-> NoNames, alive |-> {}, failing |-> {},
           killed_count |-> 0, raised |-> FALSE]

\* st before a call of smooth_transition
NoTransition == [pc |-> "off", steps |-> 1, from_pct |-> 0, to_pct |-> 0,
                 step |-> 0, depth |-> 0, target |-> 0, changes |-> 0,
                 running |-> FALSE, rendered |-> <<>>, from0 |-> 0,
                 to0 |-> 0, seen |-> <<>>, current_percentage |-> 0,
                 target_percentage |-> 0]

\* cv before a channel value is computed
NoCount == [op |-> "none", sent |-> 0, inflight |-> FALSE, running |-> FALSE,
            alive |-> {}, sending |-> {}, cancelled |-> 0,
            segment_counter |-> 0, command_count |-> 0,
            success_count |-> 0, fail_count |-> 0]

NoChannel == [pc |-> "off", base |-> 0, t |-> 0, brightness |-> 0,
              value |-> 0, again |-> 0]

\* a trigger handler that has not been started
IdleHandler == [pc |-> "idle", result |-> "none", ret |-> "none"]

\* tr with no trigger delivered
NoTrigger == [h |-> [i \in Triggers |-> IdleHandler], run_once_mode |-> FALSE]

Init ==
    /\ EngineInit
    /\ sl = NoSleep
    /\ sd = NoSend
    /\ mg = NoManager
    /\ tr = NoTrigger
    /\ ka = NoKill
    /\ st = NoTransition
    /\ cv = NoChannel
    /\ cn = NoCount

\* ------------------------------------------------------ segment-fade tasks
callerVars == <<sl, sd, mg, tr, ka, st, cv, cn, effect, caller, ncalls, started>>

\* "self.active_tasks.discard(task_name); return"
ExitDiscard(n) ==
    /\ active_tasks' = active_tasks \ {n}
    /\ task' = [task EXCEPT ![n] = NoTask]

\* run_effect from its start to the sleep after the initial segment
\* (target_segments = randint(NUM_SEGMENTS_MIN, NUM_SEGMENTS_MAX) = 1)
MainBegin ==
    /\ task[MainName].pc = "begin"
    /\ segment_counter < MaxSegments
    /\ segment_counter' = segment_counter + 1
    /\ active_tasks' = active_tasks \cup {segment_counter + 1}
    /\ spawned_tasks' = [spawned_tasks EXCEPT ![segment_counter + 1] = @ + 1]
    /\ task' = [task EXCEPT
                  ![MainName] = [@ EXCEPT !.pc = "stagger"],
                  ![segment_counter + 1] =
                      [pc |-> "begin", step |-> 0]]
    /\ UNCHANGED <<running, active_segments, shared_session, afterStop,
                   callerVars>>

\* run_effect wakes from task.sleep(uniform(0.5, 1.5)) or task.sleep(10):
\* "while self.running: ... await self.task.sleep(10)"
MainWake ==
    /\ task[MainName].pc \in {"stagger", "idle"}
    /\ task' = [task EXCEPT ![MainName] =
                  IF running THEN [@ EXCEPT !.pc = "idle"] ELSE NoTask]
    /\ UNCHANGED <<running, active_tasks, spawned_tasks, active_segments,
                   segment_counter, shared_session, afterStop,
                   callerVars>>

\* fade_segment_lifecycle from the position search to the first fade-in
\* send: no suspension point lies between check_overlap and the registration
PlaceSegment(n) ==
    \E segment_length \in SEGMENT_LENGTH_MIN..SEGMENT_LENGTH_MAX :
      \E start_pos \in FindPosition(segment_length) :
        IF start_pos = 0
        THEN /\ ExitDiscard(n)
             /\ UNCHANGED <<active_segments, shared_session>>
        ELSE /\ active_segments' =
                   [id \in DOMAIN active_segments \cup {n} |->
                      IF id = n THEN <<start_pos, start_pos + segment_length - 1>>
                      ELSE active_segments[id]]
             /\ task' = [task EXCEPT ![n] = [@ EXCEPT !.pc = "fi_send", !.step = 0]]
             /\ shared_session' = SessionAfterRequest
             /\ UNCHANGED active_tasks

\* fade_segment_lifecycle begins: interruptible_sleep(uniform(0, 3))
SegBegin(n) ==
    /\ task[n].pc = "begin"
    /\ IF ~running
       THEN /\ ExitDiscard(n)
            /\ UNCHANGED <<active_segments, shared_session>>
       ELSE \/ /\ task' = [task EXCEPT ![n] = [@ EXCEPT !.pc = "delay"]]
               /\ UNCHANGED <<active_tasks, active_segments, shared_session>>
            \/ PlaceSegment(n)     \* the delay drawn is 0
    /\ UNCHANGED <<running, spawned_tasks, segment_counter, afterStop,
                   callerVars>>

\* a chunk of the initial delay is over
SegDelayWake(n) ==
    /\ task[n].pc = "delay"
    /\ IF ~running
       THEN /\ ExitDiscard(n)
            /\ UNCHANGED <<active_segments, shared_session>>
       ELSE PlaceSegment(n)        \* or another chunk: no change of state
    /\ UNCHANGED <<running, spawned_tasks, segment_counter, afterStop,
                   callerVars>>

\* a fade-in frame answered; task.sleep(step_duration) follows
SegFadeInSent(n) ==
    /\ task[n].pc = "fi_send"
    /\ \E ok \in BOOLEAN :
         afterStop' = EffectFrame(ok)
    /\ task' = [task EXCEPT ![n] = [@ EXCEPT !.pc = "fi_sleep"]]
    /\ UNCHANGED <<running, active_tasks, spawned_tasks, active_segments,
                   segment_counter, shared_session, callerVars>>

\* next fade-in step, or the stay-on phase: interruptible_sleep(spawn_delay)
SegFadeInWake(n) ==
    /\ task[n].pc = "fi_sleep"
    /\ IF ~running
       THEN /\ ExitDiscard(n)
            /\ UNCHANGED shared_session
       ELSE /\ UNCHANGED active_tasks
            /\ IF task[n].step < FadeInSteps
               THEN /\ task' = [task EXCEPT ![n] =
                                  [@ EXCEPT !.pc = "fi_send", !.step = @ + 1]]
                    /\ shared_session' = SessionAfterRequest
               ELSE /\ task' = [task EXCEPT ![n] =
                                  [@ EXCEPT !.pc = "stay1", !.step = 0]]
                    /\ UNCHANGED shared_session
    /\ UNCHANGED <<running, spawned_tasks, active_segments, segment_counter,
                   afterStop, callerVars>>

\* spawn_delay is over: the replacement is spawned, then
\* interruptible_sleep(remaining_stay)
SegStay1Wake(n) ==
    /\ task[n].pc = "stay1"
    /\ IF ~running
       THEN /\ ExitDiscard(n)
            /\ UNCHANGED <<spawned_tasks, segment_counter>>
       ELSE /\ segment_counter < MaxSegments
            /\ segment_counter' = segment_counter + 1
            /\ active_tasks' = active_tasks \cup {segment_counter + 1}
            /\ spawned_tasks' = [spawned_tasks EXCEPT ![segment_counter + 1] = @ + 1]
            /\ task' = [task EXCEPT
                          ![n] = [@ EXCEPT !.pc = "stay2"],
                          ![segment_counter + 1] =
                              [pc |-> "begin", step |-> 0]]
    /\ UNCHANGED <<running, active_segments, shared_session, afterStop,
                   callerVars>>

\* remaining_stay is over: first fade-out frame
SegStay2Wake(n) ==
    /\ task[n].pc = "stay2"
    /\ IF ~running
       THEN /\ ExitDiscard(n)
            /\ UNCHANGED shared_session
       ELSE /\ task' = [task EXCEPT ![n] = [@ EXCEPT !.pc = "fo_send", !.step = 0]]
            /\ shared_session' = SessionAfterRequest
            /\ UNCHANGED active_tasks
    /\ UNCHANGED <<running, spawned_tasks, active_segments, segment_counter,
                   afterStop, callerVars>>

\* a fade-out frame answered; task.sleep(step_duration) follows
SegFadeOutSent(n) ==
    /\ task[n].pc = "fo_send"
    /\ \E ok \in BOOLEAN :
         afterStop' = EffectFrame(ok)
    /\ task' = [task EXCEPT ![n] = [@ EXCEPT !.pc = "fo_sleep"]]
    /\ UNCHANGED <<running, active_tasks, spawned_tasks, active_segments,
                   segment_counter, shared_session, callerVars>>

\* next fade-out step, or, the loop over, the "Clear LEDs" frame is sent
SegFadeOutWake(n) ==
    /\ task[n].pc = "fo_sleep"
    /\ IF task[n].step < FadeOutSteps
       THEN IF ~running
            THEN /\ ExitDiscard(n)
                 /\ UNCHANGED shared_session
            ELSE /\ task' = [task EXCEPT ![n] =
                               [@ EXCEPT !.pc = "fo_send", !.step = @ + 1]]
                 /\ shared_session' = SessionAfterRequest
                 /\ UNCHANGED active_tasks
       ELSE /\ task' = [task EXCEPT ![n] = [@ EXCEPT !.pc = "clear_send"]]
            /\ shared_session' = SessionAfterRequest
            /\ UNCHANGED active_tasks
    /\ UNCHANGED <<running, spawned_tasks, active_segments, segment_counter,
                   afterStop, callerVars>>

\* the clear frame answered: active_segments.pop, active_tasks.discard, end
SegClearSent(n) ==
    /\ task[n].pc = "clear_send"
    /\ \E ok \in BOOLEAN :
         afterStop' = EffectFrame(ok)
    /\ active_segments' = [id \in DOMAIN active_segments \ {n} |->
                             active_segments[id]]
    /\ ExitDiscard(n)
    /\ UNCHANGED <<running, spawned_tasks, segment_counter, shared_session,
                   callerVars>>

\* ------------------------------------------------------------ specification
Next ==
    \/ Configure
    \/ \E c \in Callers : StartEffect(c)
    \/ \E c \in Callers : StopEffect(c)
    \/ \E c \in Callers : TcGetState(c)
    \/ \E c \in Callers : TcControl(c)
    \/ \E c \in Callers : TcSleep(c)
    \/ \E c \in Callers : TcSegment(c)
    \/ \E c \in Callers : BlackoutSent(c)
    \/ \E c \in Callers : BlackoutSleep(c)
    \/ \E c \in Callers : ResetSent(c)
    \/ \E c \in Callers : StartCreateMain(c)
    \/ \E c \in Callers : StopCleanup(c)
    \/ \E c \in Callers : CleanupDone(c)
    \/ \E c \in Callers : SettleWake(c)
    \/ MainBegin
    \/ MainWake
    \/ \E n \in SegNames : SegBegin(n)
    \/ \E n \in SegNames : SegDelayWake(n)
    \/ \E n \in SegNames : SegFadeInSent(n)
    \/ \E n \in SegNames : SegFadeInWake(n)
    \/ \E n \in SegNames : SegStay1Wake(n)
    \/ \E n \in SegNames : SegStay2Wake(n)
    \/ \E n \in SegNames : SegFadeOutSent(n)
    \/ \E n \in SegNames : SegFadeOutWake(n)
    \/ \E n \in SegNames : SegClearSent(n)

Spec == Init /\ [][Next]_vars

\* ------------------------------------------- interruptible_sleep, with time
\* One call of interruptible_sleep(duration) by a task of the effect, with a
\* clock: sl.now is the time since the call, sl.left what is left of the
\* task.sleep in progress.  task.sleep(t) resumes its caller after exactly t.
\* The other tasks appear by what they do to running: stop() clears it,
\* start() sets it.  sl.flipAt is the time running first became false (-1:
\* never), sl.restarted says that it was set again after that.
restVars == <<effect, active_tasks, spawned_tasks, active_segments,
              segment_counter, shared_session, task, caller, ncalls, started,
              afterStop, sd, mg, tr, ka, st, cv, cn>>

\* a sleep that is not cut in chunks
WholeSleep(remaining_time) == remaining_time

\* "sleep_time = min(0.5, remaining_time)"
SleepTime(remaining_time) ==
    IF SLEEP_CHUNK < remaining_time THEN SLEEP_CHUNK ELSE remaining_time

\* "while remaining_time > 0 and self.running:" the next task.sleep, or
\* "return self.running"
SleepLoop(s) ==
    IF s.remaining_time > 0 /\ running
    THEN [s EXCEPT !.pc = "sleeping",
                   !.sleep_time = SleepTime(s.remaining_time),
                   !.left = SleepTime(s.remaining_time)]
    ELSE [s EXCEPT !.pc = "returned", !.result = running]

\* the call, up to its first suspension point
interruptible_sleep ==
    /\ sl.pc = "call"
    /\ sl' = SleepLoop([sl EXCEPT !.remaining_time = sl.duration])
    /\ UNCHANGED engineVars

\* a tenth of a second passes
SleepTick ==
    /\ sl.pc = "sleeping"
    /\ sl.left > 0
    /\ sl' = [sl EXCEPT !.left = @ - 1, !.now = @ + 1]
    /\ UNCHANGED engineVars

\* task.sleep(sleep_time) is over: "remaining_time -= sleep_time"
SleepWake ==
    /\ sl.pc = "sleeping"
    /\ sl.left = 0
    /\ sl' = SleepLoop([sl EXCEPT !.remaining_time = @ - sl.sleep_time])
    /\ UNCHANGED engineVars

\* stop(): "self.running = False"
SleepStop ==
    /\ sl.pc = "sleeping"
    /\ running
    /\ running' = FALSE
    /\ sl' = [sl EXCEPT !.flipAt = IF @ = -1 THEN sl.now ELSE @]
    /\ UNCHANGED restVars

\* start(): "self.running = True"
SleepStart ==
    /\ sl.pc = "sleeping"
    /\ ~running
    /\ running' = TRUE
    /\ sl' = [sl EXCEPT !.restarted = TRUE]
    /\ UNCHANGED restVars

SleepInit ==
    /\ effect = "SegmentFade"
    /\ running \in BOOLEAN
    /\ active_tasks = {}
    /\ spawned_tasks = NoNames
    /\ active_segments = <<>>
    /\ segment_counter = 0
    /\ shared_session = "None"
    /\ task = [n \in Names |-> NoTask]
    /\ caller = [c \in Callers |-> IdleCaller]
    /\ ncalls = 0
    /\ started = TRUE
    /\ afterStop = "no"
    /\ sd = NoSend
    /\ mg = NoManager
    /\ tr = NoTrigger
    /\ ka = NoKill
    /\ st = NoTransition
    /\ cv = NoChannel
    /\ cn = NoCount
    /\ \E d \in 0..MaxDuration :
         sl = [NoSleep EXCEPT !.pc = "call", !.duration = d,
                              !.flipAt = IF running THEN -1 ELSE 0]

SleepNext ==
    \/ interruptible_sleep
    \/ SleepTick
    \/ SleepWake
    \/ SleepStop
    \/ SleepStart

SleepSpec == SleepInit /\ [][SleepNext]_vars

\* ---------------------------------------- send_wled_command, send_command
\* The sends of one task, one after the other.  The transport is the one the
\* requirements describe: it fails the first sd.failFirst attempts of a send
\* and acknowledges the next; each failure is a status other than 200, a
\* timeout or another exception.  History of the send in progress:
\*   attempts  requests posted        backoffs  task.sleep(0.1) begun
\*   waited    time slept             acked     an attempt was answered 200
\*   success0, fail0  success_count and fail_count when the send was called
Failures == {"status", "timeout", "error"}

sendRest == <<effect, running, active_tasks, spawned_tasks, active_segments,
              segment_counter, task, caller, ncalls, started, afterStop, sl,
              mg, tr, ka, st, cv, cn>>

\* a retry after the last attempt as well
Retries_once_more(attempt, retry_count) == attempt <= retry_count

\* "if attempt < retry_count:" of both except branches
Retries(attempt, retry_count) == attempt < retry_count

\* every failed attempt counted as a failure
Counted_per_attempt(s, success) ==
    IF success THEN [s EXCEPT !.success_count = @ + s.attempts]
    ELSE [s EXCEPT !.fail_count = @ + s.attempts]

\* send_wled_command after send_command: "if success: self.success_count
\* += 1 else: self.fail_count += 1"
Counted(s, success) ==
    IF success THEN [s EXCEPT !.success_count = @ + 1]
    ELSE [s EXCEPT !.fail_count = @ + 1]

\* send_command returns success, send_wled_command counts and returns it
SendReturns(s, success) ==
    [Counted(s, success) EXCEPT !.pc = "returned", !.result = success]

\* send_wled_command up to the first post of send_command
send_wled_command ==
    /\ sd.pc \in {"off", "returned"}
    /\ sd.command_count < MaxSends
    /\ \E retry_count \in 0..MaxRetry, k \in 0..(MaxRetry + 1) :
         sd' = [sd EXCEPT !.pc = "attempt", !.retry_count = retry_count,
                          !.failFirst = k, !.attempt = 0, !.attempts = 1,
                          !.backoffs = 0, !.waited = 0, !.outcome = "none",
                          !.acked = FALSE, !.result = FALSE,
                          !.command_count = @ + 1,
                          !.success0 = sd.success_count,
                          !.fail0 = sd.fail_count]
    /\ shared_session' = SessionAfterRequest
    /\ UNCHANGED sendRest

\* what send_command does with the answer of an attempt
send_command(s, outcome) ==
    IF outcome = "200"
    THEN SendReturns([s EXCEPT !.outcome = outcome, !.acked = TRUE], TRUE)
    ELSE IF outcome = "status"
    THEN SendReturns([s EXCEPT !.outcome = outcome], FALSE)
    ELSE IF Retries(s.attempt, s.retry_count)
    THEN [s EXCEPT !.outcome = outcome, !.pc = "backoff", !.backoffs = @ + 1]
    ELSE SendReturns([s EXCEPT !.outcome = outcome], FALSE)

\* the post of the current attempt ends
SendAnswered ==
    /\ sd.pc = "attempt"
    /\ IF sd.attempt >= sd.failFirst
       THEN sd' = send_command(sd, "200")
       ELSE \E outcome \in Failures : sd' = send_command(sd, outcome)
    /\ UNCHANGED <<sendRest, shared_session>>

\* task.sleep(0.1) over: the next attempt is posted
SendBackoffOver ==
    /\ sd.pc = "backoff"
    /\ sd' = [sd EXCEPT !.pc = "attempt", !.attempt = @ + 1,
                        !.attempts = @ + 1, !.waited = @ + BACKOFF]
    /\ UNCHANGED <<sendRest, shared_session>>

SendInit ==
    /\ EngineInit
    /\ sl = NoSleep
    /\ sd = NoSend
    /\ mg = NoManager
    /\ tr = NoTrigger
    /\ ka = NoKill
    /\ st = NoTransition
    /\ cv = NoChannel
    /\ cn = NoCount

SendNext ==
    \/ send_wled_command
    \/ SendAnswered
    \/ SendBackoffOver

SendSpec == SendInit /\ [][SendNext]_vars

\* --------------------------------------------------- wled_effect_configure
\* The manager under wled_effect_configure calls.  The service is not async:
\* a call is one step.  Values are kept as strings ("None" for None).
effect_map == {"Rainbow Wave", "Segment Fade", "Loading", "State Sync"}

\* an effect argument that is not a key of effect_map
UnknownEffect == "Unknown"

\* the entity and attribute arguments a call can have
Entities == {"None", "sensor.level"}
Attributes == {"None", "brightness"}

\* class_name of effect_map[effect_name]
ClassOf(effect_name) ==
    CASE effect_name = "Rainbow Wave" -> "RainbowWave"
      [] effect_name = "Segment Fade" -> "SegmentFade"
      [] effect_name = "Loading" -> "Loading"
      [] effect_name = "State Sync" -> "StateSync"

\* n calls of log.error
LogError(m, n) == [m EXCEPT !.errors = @ + n]

\* an unknown name unloads the class
load_effect_class_clearing(m, effect_name, imported) ==
    IF effect_name \notin effect_map
    THEN [m |-> LogError([m EXCEPT !.effect_class = "None"], 1), ok |-> FALSE]
    ELSE IF ~imported
    THEN [m |-> LogError(m, 2), ok |-> FALSE]
    ELSE [m |-> [m EXCEPT !.effect_class = ClassOf(effect_name)], ok |-> TRUE]

\* load_effect_class: unknown name, import that raises, or class loaded
load_effect_class(m, effect_name, imported) ==
    IF effect_name \notin effect_map
    THEN [m |-> LogError(m, 1), ok |-> FALSE]
    ELSE IF ~imported
    THEN [m |-> LogError(m, 2), ok |-> FALSE]
    ELSE [m |-> [m EXCEPT !.effect_class = ClassOf(effect_name)], ok |-> TRUE]

setup_state_provider(m, entity_id) == [m EXCEPT !.state_provider = entity_id]

setup_trigger(m, entity_id, attribute, run_on_change) ==
    [m EXCEPT !.trigger_entity = entity_id, !.trigger_attribute = attribute,
              !.trigger_on_change = run_on_change]

\* effect_kwargs of wled_effect_configure, as a set of <<key, value>>
effect_kwargs(m, auto_detect, segment_id) ==
    (IF m.state_provider # "None"
     THEN {<<"state_provider", m.state_provider>>} ELSE {})
    \cup (IF auto_detect # "None" THEN {<<"auto_detect", auto_detect>>} ELSE {})
    \cup (IF segment_id # "None" THEN {<<"segment_id", segment_id>>} ELSE {})

Keys(kwargs) == {kv[1] : kv \in kwargs}

\* effect_class(*base_args, **kwargs) does not raise.  positional: the state
\* provider is the fourth positional argument.  SegmentFadeEffect.__init__
\* takes (task_manager, logger, http_client), StateSyncEffect.__init__ takes
\* state_provider as well; the other two constructors are not in the
\* sources: accepted says what they do.
Accepts(effect_class, positional, keys, accepted) ==
    CASE effect_class = "SegmentFade" -> ~positional /\ keys = {}
      [] effect_class = "StateSync" ->
            \/ positional /\ keys = {}
            \/ ~positional /\ keys = {"state_provider"}
      [] OTHER -> accepted

\* create_effect(**kwargs) with manager m and instance e.  requires is
\* getattr(effect_class, 'REQUIRES_STATE_PROVIDER', False): no class of the
\* sources defines the attribute, the base class they inherit from can.
\* "self.effect_args = kwargs" comes first, and kwargs.pop removes the key
\* from that same dict.
create_effect(m, e, kwargs, requires, accepted) ==
    IF m.effect_class = "None"
    THEN [m |-> LogError(m, 1), effect |-> e, ok |-> FALSE,
          why |-> "no_class"]
    ELSE LET given == "state_provider" \in Keys(kwargs)
             stored == IF requires /\ given
                       THEN {kv \in kwargs : kv[1] # "state_provider"}
                       ELSE kwargs
             m1 == [m EXCEPT !.effect_args = stored]
         IN IF requires /\ ~given /\ m.state_provider = "None"
            THEN [m |-> LogError(m1, 1), effect |-> e, ok |-> FALSE,
                  why |-> "no_state_provider"]
            ELSE IF Accepts(m.effect_class, requires, Keys(stored), accepted)
            THEN [m |-> [m1 EXCEPT !.instances = @ + 1],
                  effect |-> m.effect_class, ok |-> TRUE,
                  why |-> "configured"]
            ELSE [m |-> LogError(m1, 2), effect |-> e, ok |-> FALSE,
                  why |-> "not_constructed"]

\* the service wled_effect_configure
wled_effect_configure ==
    /\ mg.configures < MaxConfigures
    /\ \E effect_name \in effect_map \cup {UnknownEffect},
          state_entity \in Entities, trigger_entity \in Entities,
          auto_detect \in {"None", "True"}, segment_id \in {"None", "1"} :
       \* arguments and outcomes are drawn where the call looks at them
       \E trigger_attribute \in
                IF trigger_entity = "None" THEN {"None"} ELSE Attributes,
          trigger_on_change \in
                IF trigger_entity = "None" THEN {TRUE} ELSE BOOLEAN,
          imported \in IF effect_name \in effect_map THEN BOOLEAN ELSE {FALSE} :
        \E requires \in IF imported THEN BOOLEAN ELSE {FALSE},
           accepted \in
                IF imported /\ effect_name \in {"Rainbow Wave", "Loading"}
                THEN BOOLEAN ELSE {FALSE} :
         LET m0 == [mg EXCEPT !.configures = @ + 1, !.selector = effect_name]
             l == load_effect_class(m0, effect_name, imported)
             m1 == IF state_entity # "None"
                   THEN setup_state_provider(l.m, state_entity) ELSE l.m
             m2 == IF trigger_entity # "None"
                   THEN setup_trigger(m1, trigger_entity, trigger_attribute,
                                      trigger_on_change)
                   ELSE m1
             c == create_effect(m2, effect,
                                effect_kwargs(m2, auto_detect, segment_id),
                                requires, accepted)
         IN IF ~l.ok
            THEN /\ mg' = [LogError(l.m, 1) EXCEPT !.outcome = "not_loaded"]
                 /\ effect' = effect
            ELSE /\ mg' = [(IF c.ok THEN c.m ELSE LogError(c.m, 1))
                              EXCEPT !.outcome = c.why]
                 /\ effect' = c.effect
    /\ UNCHANGED <<running, active_tasks, spawned_tasks, active_segments,
                   segment_counter, shared_session, task, caller, ncalls,
                   started, afterStop, sl, sd, tr, ka, st, cv, cn>>

ConfigInit ==
    /\ EngineInit
    /\ sl = NoSleep
    /\ sd = NoSend
    /\ mg = NoManager
    /\ tr = NoTrigger
    /\ ka = NoKill
    /\ st = NoTransition
    /\ cv = NoChannel
    /\ cn = NoCount

ConfigNext == wled_effect_configure

ConfigSpec == ConfigInit /\ [][ConfigNext]_vars

\* ------------------------------------------------ handle_trigger, run_once
\* Every notification runs wled_effect_trigger in a task of its own, in slot
\* i of tr.h.  The effect is a configured Segment Fade.  run_once is the one
\* of the requirements: it sets running for the duration of the call and
\* selects the single-iteration branch of run_effect, awaits run_effect, then
\* leaves running false and reaps the sub-tasks before it returns.
\*   pc "stagger": run_once is awaiting run_effect, which is in the sleep
\*   that follows the creation of the initial segment
TriggerManager(run_on_change) ==
    [NoManager EXCEPT !.effect_class = "SegmentFade",
                      !.trigger_entity = "sensor.level",
                      !.trigger_on_change = run_on_change,
                      !.instances = 1, !.configures = 1,
                      !.selector = "Segment Fade",
                      !.outcome = "configured"]

\* run_once is in progress in handler i
Handling(i) == tr.h[i].pc = "stagger"

\* a run of the effect is in progress: the main task of start(), or a
\* run_once that has not returned
RunsInProgress ==
    Cardinality({i \in Triggers : Handling(i)})
        + (IF Alive(MainName) THEN 1 ELSE 0)

HandlerDone(i, result) ==
    tr' = [tr EXCEPT !.h[i] = [pc |-> "done", result |-> result,
                               ret |-> ManagerReturn("run_once", result)]]

\* run_once up to the first suspension point of run_effect: running and
\* run_once_mode are set, run_effect creates the initial segment and sleeps
run_once(i) ==
    /\ segment_counter < MaxSegments
    /\ running' = TRUE
    /\ tr' = [tr EXCEPT !.run_once_mode = TRUE, !.h[i].pc = "stagger"]
    /\ segment_counter' = segment_counter + 1
    /\ active_tasks' = active_tasks \cup {segment_counter + 1}
    /\ create_task(segment_counter + 1, [pc |-> "begin", step |-> 0])

\* handle_trigger, from the notification to its first suspension point
handle_trigger(i) ==
    IF effect = "None"
    THEN /\ HandlerDone(i, "no_effect")
         /\ UNCHANGED <<running, segment_counter, active_tasks, spawned_tasks, task>>
    ELSE IF ~mg.trigger_on_change
    THEN /\ HandlerDone(i, "not_on_change")
         /\ UNCHANGED <<running, segment_counter, active_tasks, spawned_tasks, task>>
    ELSE IF running
    THEN /\ HandlerDone(i, "ignored")
         /\ UNCHANGED <<running, segment_counter, active_tasks, spawned_tasks, task>>
    ELSE run_once(i)

\* a notification for the trigger entity is delivered
TriggerFires(i) ==
    /\ tr.h[i].pc = "idle"
    /\ \A j \in Triggers : j < i => tr.h[j].pc # "idle"
    /\ mg.trigger_entity # "None"
    /\ handle_trigger(i)
    /\ UNCHANGED <<effect, active_segments, shared_session, caller, ncalls,
                   started, afterStop, sl, sd, mg, ka, st, cv, cn>>

\* run_once returning with the sub-tasks named in active_tasks reaped only
run_once_return_tracked(i) ==
    /\ running' = FALSE
    /\ task' = Killed(active_tasks)
    /\ spawned_tasks' = RemoveNames(spawned_tasks, active_tasks)
    /\ active_tasks' = {}
    /\ tr' = [tr EXCEPT !.run_once_mode = FALSE,
                        !.h[i] = [pc |-> "done", result |-> "ran",
                                            ret |-> ManagerReturn("run_once", "ran")]]

\* run_once after run_effect returned: running false, every sub-task of the
\* effect reaped, then the return; or kill_task raises after the names of K
\* and run_once_effect returns False
run_once_return(i) ==
    /\ running' = FALSE
    /\ \/ /\ task' = Killed(SegNames)
          /\ spawned_tasks' = RemoveNames(spawned_tasks, SegNames)
          /\ active_tasks' = {}
          /\ tr' = [tr EXCEPT !.run_once_mode = FALSE,
                              !.h[i] = [pc |-> "done", result |-> "ran",
                                            ret |-> ManagerReturn("run_once", "ran")]]
       \/ \E K \in SUBSET SegNames :
            /\ K # SegNames
            /\ task' = Killed(K)
            /\ spawned_tasks' = RemoveNames(spawned_tasks, K)
            /\ UNCHANGED active_tasks
            /\ tr' = [tr EXCEPT !.run_once_mode = FALSE,
                                !.h[i] = [pc |-> "done", result |-> "raised",
                                            ret |-> ManagerReturn("run_once", "raised")]]

\* run_effect awaited by run_once wakes from its sleep: "while self.running:
\* if self.run_once_mode: break ... await self.task.sleep(10)"
TriggerWake(i) ==
    /\ Handling(i)
    /\ ~(running /\ ~tr.run_once_mode)
    /\ run_once_return(i)
    /\ UNCHANGED <<effect, active_segments, segment_counter, shared_session,
                   caller, ncalls, started, afterStop, sl, sd, mg, ka, st, cv, cn>>

\* run_effect of the main task wakes: the same loop
TrigMainWake ==
    /\ task[MainName].pc \in {"stagger", "idle"}
    /\ task' = [task EXCEPT ![MainName] =
                  IF running /\ ~tr.run_once_mode
                  THEN [@ EXCEPT !.pc = "idle"] ELSE NoTask]
    /\ UNCHANGED <<running, active_tasks, spawned_tasks, active_segments,
                   segment_counter, shared_session, afterStop,
                   callerVars>>

\* the service calls made beside the triggers
TrigStartEffect(c) == ncalls < MaxTrigCalls /\ StartEffect(c)
TrigStopEffect(c) == ncalls < MaxTrigCalls /\ StopEffect(c)

TrigInit ==
    /\ effect = "SegmentFade"
    /\ running = FALSE
    /\ active_tasks = {}
    /\ spawned_tasks = NoNames
    /\ active_segments = <<>>
    /\ segment_counter = 0
    /\ shared_session = "None"
    /\ task = [n \in Names |-> NoTask]
    /\ caller = [c \in Callers |-> IdleCaller]
    /\ ncalls = 0
    /\ started = FALSE
    /\ afterStop = "no"
    /\ sl = NoSleep
    /\ sd = NoSend
    /\ \E run_on_change \in BOOLEAN : mg = TriggerManager(run_on_change)
    /\ tr = NoTrigger
    /\ ka = NoKill
    /\ st = NoTransition
    /\ cv = NoChannel
    /\ cn = NoCount

TrigNext ==
    \/ \E i \in Triggers : TriggerFires(i)
    \/ \E i \in Triggers : TriggerWake(i)
    \/ \E c \in Callers : TrigStartEffect(c)
    \/ \E c \in Callers : TrigStopEffect(c)
    \/ \E c \in Callers : TcGetState(c)
    \/ \E c \in Callers : TcControl(c)
    \/ \E c \in Callers : TcSleep(c)
    \/ \E c \in Callers : TcSegment(c)
    \/ \E c \in Callers : BlackoutSent(c)
    \/ \E c \in Callers : BlackoutSleep(c)
    \/ \E c \in Callers : ResetSent(c)
    \/ \E c \in Callers : StartCreateMain(c)
    \/ \E c \in Callers : StopCleanup(c)
    \/ \E c \in Callers : CleanupDone(c)
    \/ \E c \in Callers : SettleWake(c)
    \/ MainBegin
    \/ TrigMainWake
    \/ \E n \in SegNames : SegBegin(n)
    \/ \E n \in SegNames : SegDelayWake(n)
    \/ \E n \in SegNames : SegFadeInSent(n)
    \/ \E n \in SegNames : SegFadeInWake(n)
    \/ \E n \in SegNames : SegStay1Wake(n)
    \/ \E n \in SegNames : SegStay2Wake(n)
    \/ \E n \in SegNames : SegFadeOutSent(n)
    \/ \E n \in SegNames : SegFadeOutWake(n)
    \/ \E n \in SegNames : SegClearSent(n)

TriggerSpec == TrigInit /\ [][TrigNext]_vars

\* ---------------------------------------------------------- kill_all_tasks
\* One call of kill_all_tasks on a list s of names and tasks t.  F holds the
\* names for which task.unique(name, kill_me=True) raises.  The list is kept
\* as the number of times each name is in it; the loop takes one entry after
\* the other (here by ascending name).
Listed(s) == {n \in Names : s[n] > 0}

\* the number of entries of s with a name of S
RECURSIVE Entries(_, _)
Entries(s, S) ==
    IF S = {} THEN 0
    ELSE LET n == CHOOSE x \in S : TRUE IN s[n] + Entries(s, S \ {n})

\* the loop without its try/except: the first failure ends the call
kill_all_tasks_unguarded(s, t, F) ==
    IF Listed(s) \cap F = {}
    THEN [task |-> [n \in Names |-> IF n \in Listed(s) THEN NoTask ELSE t[n]],
          spawned_tasks |-> NoNames,
          killed_count |-> Entries(s, Listed(s)), raised |-> FALSE]
    ELSE LET first == CHOOSE n \in Listed(s) \cap F :
                          \A k \in Listed(s) \cap F : n <= k
             before == {n \in Listed(s) : n < first}
         IN [task |-> [n \in Names |-> IF n \in before THEN NoTask ELSE t[n]],
             spawned_tasks |-> s,
             killed_count |-> Entries(s, before), raised |-> TRUE]

\* kill_all_tasks: "for task_name in list(self._spawned_tasks): try:
\* task.unique(task_name, kill_me=True); killed_count += 1; except Exception:
\* log.warning", then "_spawned_tasks.clear()" and "return killed_count"
kill_all_tasks(s, t, F) ==
    [task |-> [n \in Names |-> IF n \in Listed(s) \ F THEN NoTask ELSE t[n]],
     spawned_tasks |-> NoNames,
     killed_count |-> Entries(s, Listed(s) \ F), raised |-> FALSE]

\* the call, with its history in ka
KillAllTasks ==
    /\ ka.pc = "call"
    /\ \E F \in SUBSET Names :
         LET k == kill_all_tasks(spawned_tasks, task, F) IN
         /\ task' = k.task
         /\ spawned_tasks' = k.spawned_tasks
         /\ ka' = [pc |-> "returned", listed |-> spawned_tasks,
                   alive |-> {n \in Names : Alive(n)}, failing |-> F,
                   killed_count |-> k.killed_count, raised |-> k.raised]
    /\ UNCHANGED <<effect, running, active_tasks, active_segments,
                   segment_counter, shared_session, caller, ncalls, started,
                   afterStop, sl, sd, mg, tr, st, cv, cn>>

\* a scheduler whose list holds each name up to MaxListed times, every task
\* scheduled or ended
KillInit ==
    /\ effect = "SegmentFade"
    /\ running \in BOOLEAN
    /\ active_tasks = {}
    /\ spawned_tasks \in [Names -> 0..MaxListed]
    /\ active_segments = <<>>
    /\ segment_counter = MaxSegments
    /\ shared_session = "None"
    /\ task \in [Names -> {NoTask, [pc |-> "begin", step |-> 0]}]
    /\ caller = [c \in Callers |-> IdleCaller]
    /\ ncalls = 0
    /\ started = TRUE
    /\ afterStop = "no"
    /\ sl = NoSleep
    /\ sd = NoSend
    /\ mg = NoManager
    /\ tr = NoTrigger
    /\ ka = [NoKill EXCEPT !.pc = "call"]
    /\ st = NoTransition
    /\ cv = NoChannel
    /\ cn = NoCount

KillNext == KillAllTasks

KillSpec == KillInit /\ [][KillNext]_vars

\* ---------------------------------------------------------------- stop_all
\* WLEDEffectManager.stop_all beside the other calls of the manager.  A call
\* of stop_all has stage "all" while its effect.stop() runs and "all_raised"
\* once that has raised.

\* the service calls made and the triggers delivered so far
ManagerOps == ncalls + Cardinality({i \in Triggers : tr.h[i].pc # "idle"})

\* stop_all from "killed_count = self.task_mgr.kill_all_tasks()" on, with
\* tasks t, list s and session: the tasks are killed, then http.cleanup() is
\* awaited, which returns at once without a session
StopAllKill(c, r, t, s, session) ==
    \E F \in SUBSET Names :
      LET k == kill_all_tasks(s, t, F) IN
      /\ task' = k.task
      /\ spawned_tasks' = k.spawned_tasks
      /\ IF session = "None"
         THEN /\ shared_session' = session
              /\ Upd(c, Done(r, IF r.stage = "all_raised"
                                THEN "stopped_all_raised" ELSE "stopped_all"))
         ELSE /\ shared_session' = "closing"
              /\ Upd(c, [r EXCEPT !.pc = "cleanup_all2", !.cleaned = TRUE])

\* the service calls stop_all: without an effect kill_all_tasks follows at
\* once; else effect.stop() up to its blackout frame, or up to the kill_task
\* that raises, which stop_all logs before it goes on
StopAll(c) ==
    /\ CanCall(c)
    /\ ManagerOps < MaxManagerOps
    /\ ncalls' = ncalls + 1
    /\ UNCHANGED <<sl, sd, mg, tr, ka, st, cv, cn, effect, active_segments, segment_counter,
                   started, afterStop>>
    /\ LET r == [NewCall(c, "stop_all") EXCEPT !.stage = "all"]
           x == [r EXCEPT !.stage = "all_raised"]
       IN IF effect = "None"
          THEN /\ StopAllKill(c, r, task, spawned_tasks, shared_session)
               /\ UNCHANGED <<running, active_tasks>>
          ELSE /\ running' = FALSE
               /\ \/ /\ task' = Killed({MainName} \cup active_tasks)
                     /\ spawned_tasks' = RemoveNames(spawned_tasks,
                                             {MainName} \cup active_tasks)
                     /\ active_tasks' = {}
                     /\ shared_session' = SessionAfterRequest
                     /\ Upd(c, [r EXCEPT !.pc = "bo1", !.sent = TRUE])
                  \/ \* task.unique raises for the main task
                     /\ StopAllKill(c, x, task, spawned_tasks, shared_session)
                     /\ UNCHANGED active_tasks
                  \/ \* task.unique raises for a sub-task, after the names of K
                     \E K \in SUBSET active_tasks :
                       /\ K # active_tasks
                       /\ StopAllKill(c, x, Killed({MainName} \cup K),
                             RemoveNames(spawned_tasks, {MainName} \cup K),
                             shared_session)
                       /\ UNCHANGED active_tasks

\* stop() of stop_all: blackout over, http.cleanup() is called; without a
\* session stop() returns and stop_all goes on
StopAllCleanup(c) ==
    /\ caller[c].pc = "bo_s2"
    /\ caller[c].stage = "all"
    /\ LET r == [caller[c] EXCEPT !.cleaned = TRUE] IN
       IF shared_session = "None"
       THEN StopAllKill(c, r, task, spawned_tasks, shared_session)
       ELSE /\ Upd(c, [r EXCEPT !.pc = "cleanup_all"])
            /\ shared_session' = "closing"
            /\ UNCHANGED <<task, spawned_tasks>>
    /\ UNCHANGED <<sl, sd, mg, tr, ka, st, cv, cn, effect, running, active_tasks,
                   active_segments, segment_counter, ncalls, started, afterStop>>

\* the cleanup() of stop() over: shared_session = None, stop() returns and
\* stop_all goes on
StopAllStopped(c) ==
    /\ caller[c].pc = "cleanup_all"
    /\ StopAllKill(c, caller[c], task, spawned_tasks, "None")
    /\ UNCHANGED <<sl, sd, mg, tr, ka, st, cv, cn, effect, running, active_tasks,
                   active_segments, segment_counter, ncalls, started, afterStop>>

\* the cleanup() of stop_all over: shared_session = None, stop_all returns True
StopAllReturn(c) ==
    /\ caller[c].pc = "cleanup_all2"
    /\ shared_session' = "None"
    /\ Upd(c, Done(caller[c], IF caller[c].stage = "all_raised"
                              THEN "stopped_all_raised" ELSE "stopped_all"))
    /\ UNCHANGED <<sl, sd, mg, tr, ka, st, cv, cn, effect, running, active_tasks,
                   spawned_tasks, active_segments, segment_counter, task,
                   ncalls, started, afterStop>>

\* the other service calls
ManagerStartEffect(c) == ManagerOps < MaxManagerOps /\ StartEffect(c)
ManagerStopEffect(c) == ManagerOps < MaxManagerOps /\ StopEffect(c)
ManagerTriggerFires(i) == ManagerOps < MaxManagerOps /\ TriggerFires(i)

\* the manager with or without an effect instance, a trigger configured
ManagerInit ==
    /\ effect \in {"None", "SegmentFade"}
    /\ running = FALSE
    /\ active_tasks = {}
    /\ spawned_tasks = NoNames
    /\ active_segments = <<>>
    /\ segment_counter = 0
    /\ shared_session = "None"
    /\ task = [n \in Names |-> NoTask]
    /\ caller = [c \in Callers |-> IdleCaller]
    /\ ncalls = 0
    /\ started = FALSE
    /\ afterStop = "no"
    /\ sl = NoSleep
    /\ sd = NoSend
    /\ mg = TriggerManager(TRUE)
    /\ tr = NoTrigger
    /\ ka = NoKill
    /\ st = NoTransition
    /\ cv = NoChannel
    /\ cn = NoCount

ManagerNext ==
    \/ \E i \in Triggers : ManagerTriggerFires(i)
    \/ \E i \in Triggers : TriggerWake(i)
    \/ \E c \in Callers : ManagerStartEffect(c)
    \/ \E c \in Callers : ManagerStopEffect(c)
    \/ \E c \in Callers : StopAll(c)
    \/ \E c \in Callers : TcGetState(c)
    \/ \E c \in Callers : TcControl(c)
    \/ \E c \in Callers : TcSleep(c)
    \/ \E c \in Callers : TcSegment(c)
    \/ \E c \in Callers : BlackoutSent(c)
    \/ \E c \in Callers : BlackoutSleep(c)
    \/ \E c \in Callers : ResetSent(c)
    \/ \E c \in Callers : StartCreateMain(c)
    \/ \E c \in Callers : StopCleanup(c)
    \/ \E c \in Callers : CleanupDone(c)
    \/ \E c \in Callers : StopAllCleanup(c)
    \/ \E c \in Callers : StopAllStopped(c)
    \/ \E c \in Callers : StopAllReturn(c)
    \/ \E c \in Callers : SettleWake(c)
    \/ MainBegin
    \/ TrigMainWake
    \/ \E n \in SegNames : SegBegin(n)
    \/ \E n \in SegNames : SegDelayWake(n)
    \/ \E n \in SegNames : SegFadeInSent(n)
    \/ \E n \in SegNames : SegFadeInWake(n)
    \/ \E n \in SegNames : SegStay1Wake(n)
    \/ \E n \in SegNames : SegStay2Wake(n)
    \/ \E n \in SegNames : SegFadeOutSent(n)
    \/ \E n \in SegNames : SegFadeOutWake(n)
    \/ \E n \in SegNames : SegClearSent(n)

ManagerSpec == ManagerInit /\ [][ManagerNext]_vars

\* -------------------------------------------------------- smooth_transition
\* One call of StateSyncEffect.smooth_transition(from_pct, to_pct), with the
\* state provider and stop() beside it.  Percentages are kept in thousandths
\* of a percent (Milli), rounded down where the code rounds a float.
\*   st.steps     SYNC_TRANSITION_STEPS of the build
\*   st.target    what state_provider.get_state() returns now
\*   st.running   effect.running
\*   st.depth     nested calls of smooth_transition below the first
\* history: rendered (the arguments of render_percentage, in order), from0 and
\* to0 (the arguments of the first call), changes (of the target), seen (for
\* each retarget: the number at of frames rendered before it, the arguments
\* from_pct, to_pct and the step of the call that saw it, the new target)
\*   st.current_percentage, st.target_percentage   the fields of the effect
\*   st.pc = "between"   run_effect after "self.current_percentage =
\*                       self.target_percentage", before its next poll
Milli == 1000
transitionRest == <<effect, running, active_tasks, spawned_tasks,
                    active_segments, segment_counter, shared_session, task,
                    caller, ncalls, started, afterStop, sl, sd, mg, tr, ka,
                    cv, cn>>
Targets == {0, 50 * Milli, 100 * Milli}

\* progress taken one step short: "step / (steps + 1)"
TransitionCurrent_short(from_pct, to_pct, step, steps) ==
    from_pct + ((to_pct - from_pct) * ((step * Milli) \div (steps + 1))) \div Milli

\* "current = from_pct + (to_pct - from_pct) * (step / steps)"
TransitionCurrent(from_pct, to_pct, step, steps) ==
    from_pct + ((to_pct - from_pct) * ((step * Milli) \div steps)) \div Milli

\* the call smooth_transition(f, t) from its first line to its first
\* suspension point, in the record x: equal arguments are rendered at once
\* ("if not SYNC_SMOOTH_TRANSITION or from_pct == to_pct"), else the loop
\* begins: "if not self.running: return", then get_state is awaited
TransitionCall(x, f, t) ==
    IF f = t
    THEN [x EXCEPT !.from_pct = f, !.to_pct = t, !.step = 0, !.pc = "render_only",
                   !.rendered = Append(@, t)]
    ELSE IF ~x.running
    THEN [x EXCEPT !.from_pct = f, !.to_pct = t, !.step = 0, !.pc = "returned"]
    ELSE [x EXCEPT !.from_pct = f, !.to_pct = t, !.step = 0, !.pc = "poll"]

\* x with the retarget it sees written to its history
Seen(x) ==
    [x EXCEPT !.depth = @ + 1,
              !.seen = Append(@, [at |-> Len(x.rendered), from_pct |-> x.from_pct,
                                  to_pct |-> x.to_pct, step |-> x.step,
                                  target |-> x.target])]

\* a retarget that discards the progress made
Retarget_discarding(x) ==
    TransitionCall(Seen(x), x.from_pct, x.target)

\* "current = from_pct + (to_pct - from_pct) * (step / steps); await
\* self.smooth_transition(current, new_target); return"
Retarget(x) ==
    TransitionCall(Seen(x),
                   TransitionCurrent(x.from_pct, x.to_pct, x.step, x.steps),
                   x.target)

\* get_state answered: a changed target restarts the animation from the
\* current position in a nested call; else the percentage of this step is
\* rendered
Polled(x) ==
    IF x.target # x.to_pct
    THEN Retarget(x)
    ELSE [x EXCEPT !.pc = "render",
                   !.rendered = Append(@, TransitionCurrent(x.from_pct, x.to_pct,
                                                            x.step, x.steps))]

TransitionPolled ==
    /\ st.pc = "poll"
    /\ st' = Polled(st)
    /\ UNCHANGED transitionRest

\* render_percentage over: "if step < steps: await interruptible_sleep", or
\* the loop is over and every nested call returns
Rendered(x) ==
    IF x.pc = "render" /\ x.step < x.steps
    THEN [x EXCEPT !.pc = IF x.running THEN "sleep" ELSE "woken"]
    ELSE [x EXCEPT !.pc = "returned"]

TransitionRendered ==
    /\ st.pc \in {"render", "render_only"}
    /\ st' = Rendered(st)
    /\ UNCHANGED transitionRest

\* interruptible_sleep over (at once when running is false): the next turn
\* of the loop begins with "if not self.running: return"
Woken(x) ==
    IF x.running
    THEN [x EXCEPT !.pc = "poll", !.step = @ + 1]
    ELSE [x EXCEPT !.pc = "returned", !.step = @ + 1]

TransitionWake ==
    /\ st.pc \in {"sleep", "woken"}
    /\ st' = Woken(st)
    /\ UNCHANGED transitionRest

\* smooth_transition returned to run_effect: "self.current_percentage =
\* self.target_percentage"
TransitionReturned ==
    /\ st.pc = "returned"
    /\ st' = [st EXCEPT !.pc = "between",
                        !.current_percentage = st.target_percentage]
    /\ UNCHANGED transitionRest

\* the entity changes to another value
TargetChanges ==
    /\ st.pc \notin {"off", "returned", "between"}
    /\ st.changes < MaxRetargets
    /\ \E v \in Targets \ {st.target} :
         st' = [st EXCEPT !.target = v, !.changes = @ + 1]
    /\ UNCHANGED transitionRest

\* stop() beside the transition: running = False
TransitionStop ==
    /\ st.pc \notin {"off", "returned", "between"}
    /\ st.running
    /\ st' = [st EXCEPT !.running = FALSE]
    /\ UNCHANGED transitionRest

\* run_effect has read a target that differs from target_percentage, has
\* written it there and calls smooth_transition(current_percentage,
\* target_percentage)
TransitionInit ==
    /\ EngineInit
    /\ sl = NoSleep
    /\ sd = NoSend
    /\ mg = NoManager
    /\ tr = NoTrigger
    /\ ka = NoKill
    /\ cv = NoChannel
    /\ cn = NoCount
    /\ \E n \in (1..MaxSteps) \cup {SYNC_TRANSITION_STEPS} :
       \E f, t \in Targets :
         /\ f # t
         /\ st = TransitionCall([NoTransition EXCEPT !.steps = n, !.target = t,
                                    !.running = TRUE, !.from0 = f, !.to0 = t,
                                    !.current_percentage = f,
                                    !.target_percentage = t],
                                f, t)

TransitionNext ==
    \/ TransitionPolled
    \/ TransitionRendered
    \/ TransitionWake
    \/ TransitionReturned
    \/ TargetChanges
    \/ TransitionStop

TransitionSpec == TransitionInit /\ [][TransitionNext]_vars

\* ------------------------------------------- smooth_transition, without end
\* The same call with a state provider that may change the target any number
\* of times while a call awaits its first poll, and MaxRetargets times
\* elsewhere (st.changes).  The history of the call is dropped and the nested
\* calls are counted up to MaxDepth (st.depth = MaxDepth: that many or more).
Forget(x) ==
    [x EXCEPT !.rendered = <<>>, !.seen = <<>>,
              !.depth = IF @ > MaxDepth THEN MaxDepth ELSE @]

RetargetPolled ==
    /\ st.pc = "poll"
    /\ st' = Forget(Polled(st))
    /\ UNCHANGED transitionRest

RetargetRendered ==
    /\ st.pc \in {"render", "render_only"}
    /\ st' = Forget(Rendered(st))
    /\ UNCHANGED transitionRest

RetargetWake ==
    /\ st.pc \in {"sleep", "woken"}
    /\ st' = Forget(Woken(st))
    /\ UNCHANGED transitionRest

\* the entity changes to another value
RetargetChanges ==
    /\ st.pc \notin {"off", "returned"}
    /\ \E v \in Targets \ {st.target} :
         IF st.pc = "poll" /\ st.step = 0
         THEN st' = [st EXCEPT !.target = v]
         ELSE /\ st.changes < MaxRetargets
              /\ st' = [st EXCEPT !.target = v, !.changes = @ + 1]
    /\ UNCHANGED transitionRest

RetargetNext ==
    \/ RetargetPolled
    \/ RetargetRendered
    \/ RetargetWake
    \/ RetargetChanges
    \/ TransitionStop

\* get_state, the send of render_percentage and task.sleep all complete, and
\* the scheduler resumes the task that awaits them
RetargetSpec ==
    /\ TransitionInit
    /\ [][RetargetNext]_vars
    /\ WF_vars(RetargetPolled)
    /\ WF_vars(RetargetRendered)
    /\ WF_vars(RetargetWake)

\* ------------------------------------------------------------------ frames
\* The "i" list of a payload, as the sequence of its <<index, colour>> pairs.
Indices(led_array) == {led_array[k][1] : k \in 1..Len(led_array)}

\* blackout_segment: "for i in range(START_LED, STOP_LED + 1):
\* led_array.extend([i, "000000"])"
blackout_led_array ==
    [k \in 1..(STOP_LED - START_LED + 1) |-> <<START_LED + k - 1, "000000">>]

\* a frame built from the positions on the strip
led_array_absolute(start_pos, end_pos, hex_color) ==
    [k \in 1..(end_pos - start_pos + 1) |-> <<start_pos + k - 1, hex_color>>]

\* fade_segment_lifecycle: "for abs_index in range(start_pos, end_pos + 1):
\* led_array.extend([abs_index - START_LED, hex_color])"
led_array(start_pos, end_pos, hex_color) ==
    [k \in 1..(end_pos - start_pos + 1) |->
        <<start_pos + k - 1 - START_LED, hex_color>>]

\* the frame the sub-task n has in flight: start_pos and end_pos are the
\* values it registered, the colour is off in the "Clear LEDs" frame
SegmentFrame(n) ==
    led_array(active_segments[n][1], active_segments[n][2],
              IF task[n].pc = "clear_send" THEN "000000" ELSE "faded")

\* ------------------------------------------------------------ channel value
\* One colour channel of a fade frame:
\*   "int(base_color[0] * brightness_factor * (LED_BRIGHTNESS / 255.0))"
\* computed as Python computes it, in IEEE-754 binary64 with round to nearest,
\* ties to even.  The factor is taken at the first and at the last step of a
\* fade, progress t = 0 and t = 1, where ease_in_out is exact; base * factor
\* is then an integer p <= 255, exact as a float.
channelRest == <<effect, running, active_tasks, spawned_tasks,
                 active_segments, segment_counter, shared_session, task,
                 caller, ncalls, started, afterStop, sl, sd, mg, tr, ka, st,
                 cn>>

RECURSIVE Pow2(_)
Pow2(n) == IF n = 0 THEN 1 ELSE 2 * Pow2(n - 1)

\* floor(log2(n)) for n in 1..511
Log2(n) == CHOOSE j \in 0..8 : Pow2(j) <= n /\ n < Pow2(j + 1)

\* ease_in_out(t) for t in {0, 1}: "if t < 0.5: return 4 * t * t * t; else:
\* return 1 - math.pow(-2 * t + 2, 3) / 2"
ease_in_out(t) ==
    IF 2 * t < 1 THEN 4 * t * t * t
    ELSE 1 - ((-2 * t + 2) * (-2 * t + 2) * (-2 * t + 2)) \div 2

\* The float brightness / 255.0 for brightness in 1..255 is M * 2^-(52+e) with
\* M in 2^52..2^53 the integer nearest to brightness * 2^(52+e) / 255.
\* BrightnessExponent is e.
BrightnessExponent(brightness) ==
    CHOOSE e \in 0..8 :
        /\ brightness * Pow2(e) >= 255
        /\ e > 0 => brightness * Pow2(e - 1) < 255

\* BrightnessError is 255 * M - brightness * 2^(52+e), the error of the
\* rounded quotient: with 2^8 = 1 (mod 255) the remainder of
\* brightness * 2^(52+e) by 255 is t, and the quotient is rounded up when
\* 2 * t > 255 (255 is odd: no tie)
BrightnessError(brightness) ==
    LET e == BrightnessExponent(brightness)
        t == (brightness * Pow2((52 + e) % 8)) % 255
    IN IF 2 * t > 255 THEN 255 - t ELSE -t

\* The channel value.  The product p * (brightness / 255.0) is, before its
\* rounding, p * brightness / 255 + p * d / (255 * 2^(52+e)) with d the
\* BrightnessError, the second term below 2^-45.  With q and s the quotient
\* and the remainder of p * brightness by 255: s > 0 or d >= 0 gives int() =
\* q; else the product lies below the integer q, and it is rounded to q
\* exactly when it is no more than half a unit in the last place away, that
\* is 2 * p * -d <= 255 * 2^(e+j) with 2^j the power of two below it;
\* otherwise int() gives q - 1.
channel(base, factor, brightness) ==
    LET p == base * factor
        q == (p * brightness) \div 255
        s == (p * brightness) % 255
        d == BrightnessError(brightness)
        e == BrightnessExponent(brightness)
        j == IF Pow2(Log2(q)) = q THEN Log2(q) - 1 ELSE Log2(q)
    IN IF p = 0 \/ brightness = 0 THEN 0
       ELSE IF s # 0 \/ d >= 0 THEN q
       ELSE IF 4 * p * (-d) <= 255 * Pow2(e + j + 1) THEN q
       ELSE q - 1

\* the channel of the frame is computed
ChannelComputed ==
    /\ cv.pc = "input"
    /\ cv' = [cv EXCEPT !.pc = "computed",
                        !.value = channel(cv.base, ease_in_out(cv.t), cv.brightness)]
    /\ UNCHANGED channelRest

\* the same frame is computed once more
ChannelAgain ==
    /\ cv.pc = "computed"
    /\ cv' = [cv EXCEPT !.pc = "again",
                        !.again = channel(cv.base, ease_in_out(cv.t), cv.brightness)]
    /\ UNCHANGED channelRest

\* every base colour channel and brightness, at the first or the last step
ChannelInit ==
    /\ EngineInit
    /\ sl = NoSleep
    /\ sd = NoSend
    /\ mg = NoManager
    /\ tr = NoTrigger
    /\ ka = NoKill
    /\ st = NoTransition
    /\ cn = NoCount
    /\ \E base, brightness \in 0..MaxChannel :
       \E t \in {0, 1} :
         cv = [NoChannel EXCEPT !.pc = "input", !.base = base, !.t = t,
                                !.brightness = brightness]

ChannelNext ==
    \/ ChannelComputed
    \/ ChannelAgain

ChannelSpec == ChannelInit /\ [][ChannelNext]_vars

\* ------------------------------------------------------ command counters
\* send_wled_command as the tasks of one effect and the callers of start()
\* and stop() run it side by side.  cn.sending holds the tasks suspended in
\* "await self.http.send_command(payload)", cn.inflight says the caller of
\* start() or stop() is suspended there (inside blackout_segment), cn.sent
\* counts the sends of that blackout_segment which returned, cn.cancelled the
\* sends whose task was killed while suspended.
countRest == <<effect, running, active_tasks, spawned_tasks, active_segments,
               segment_counter, shared_session, task, caller, ncalls, started,
               afterStop, sl, sd, mg, tr, ka, st, cv>>

\* calls of send_wled_command that have begun and neither returned nor were
\* cancelled
InFlight(c) == Cardinality(c.sending) + (IF c.inflight THEN 1 ELSE 0)

\* "self.command_count += 1" and the suspension in send_command
Sending(c) == [c EXCEPT !.command_count = @ + 1]

\* start(): the connection test passed, "self.running = True", then
\* blackout_segment
CountStart ==
    /\ cn.op = "none"
    /\ ~cn.running
    /\ cn.command_count < MaxCommands
    /\ cn' = [cn EXCEPT !.op = "start", !.running = TRUE, !.sent = 0,
                        !.alive = {}]
    /\ UNCHANGED countRest

\* blackout_segment: one of its two calls of send_wled_command begins
BlackoutSend ==
    /\ cn.op # "none"
    /\ ~cn.inflight
    /\ cn.sent < 2
    /\ cn' = [Sending(cn) EXCEPT !.inflight = TRUE]
    /\ UNCHANGED countRest

\* send_command returns to blackout_segment's send_wled_command
BlackoutAnswered ==
    /\ cn.inflight
    /\ \E success \in BOOLEAN :
         cn' = [Counted(cn, success) EXCEPT !.inflight = FALSE,
                                            !.sent = @ + 1]
    /\ UNCHANGED countRest

\* blackout_segment returned: start() creates the main task, stop() cleans
\* up and returns
BlackoutDone ==
    /\ cn.op # "none"
    /\ cn.sent = 2
    /\ ~cn.inflight
    /\ cn' = [cn EXCEPT !.op = "none",
                        !.alive = IF cn.op = "start" THEN {MainName} ELSE @]
    /\ UNCHANGED countRest

\* the main task, or a segment task during its stay, creates a segment task
CountSpawn ==
    /\ cn.alive \ cn.sending # {}
    /\ cn.running
    /\ cn.segment_counter < MaxSegments
    /\ \E n \in SegNames \ cn.alive :
         cn' = [cn EXCEPT !.alive = @ \cup {n}, !.segment_counter = @ + 1]
    /\ UNCHANGED countRest

\* a task of the effect calls send_wled_command
TaskSend ==
    /\ cn.command_count < MaxCommands
    /\ \E n \in cn.alive \ cn.sending :
         cn' = [Sending(cn) EXCEPT !.sending = @ \cup {n}]
    /\ UNCHANGED countRest

\* send_command returns to the task's send_wled_command
TaskAnswered ==
    /\ \E n \in cn.sending, success \in BOOLEAN :
         cn' = [Counted(cn, success) EXCEPT !.sending = @ \ {n}]
    /\ UNCHANGED countRest

\* a segment task reaches its end
CountTaskEnds ==
    /\ \E n \in (cn.alive \ cn.sending) \cap SegNames :
         cn' = [cn EXCEPT !.alive = @ \ {n}]
    /\ UNCHANGED countRest

\* stop() up to blackout_segment: "self.running = False", the main task and
\* every task of active_tasks killed where it is suspended
Stopped(c) ==
    [c EXCEPT !.op = "stop", !.running = FALSE, !.sent = 0, !.alive = {},
              !.sending = {},
              !.cancelled = @ + Cardinality(c.sending)]

CountStop ==
    /\ cn.op = "none"
    /\ cn.running
    /\ cn' = Stopped(cn)
    /\ UNCHANGED countRest

CountInit ==
    /\ EngineInit
    /\ sl = NoSleep
    /\ sd = NoSend
    /\ mg = NoManager
    /\ tr = NoTrigger
    /\ ka = NoKill
    /\ st = NoTransition
    /\ cv = NoChannel
    /\ cn = NoCount

CountNext ==
    \/ CountStart
    \/ BlackoutSend
    \/ BlackoutAnswered
    \/ BlackoutDone
    \/ CountSpawn
    \/ TaskSend
    \/ TaskAnswered
    \/ CountTaskEnds
    \/ CountStop

CountSpec == CountInit /\ [][CountNext]_vars

\* --------------------------------------------------- requests in flight
\* a service call is suspended in get_state or send_command
CallerRequesting(c) == caller[c].pc \in {"tc_get", "tc_ctl", "tc_seg", "bo1", "bo2"}

\* a task of the effect is suspended in send_command
TaskRequesting(n) == task[n].pc \in {"fi_send", "fo_send", "clear_send"}

\* ------------------------------------------------------------------- claims
\* the call in slot c returns in this step
Returns(c) == Active(c) /\ caller'[c].pc = "done"

\* C1: any two distinct entries A, B of active_segments satisfy
\* A.end + MIN_SPACING < B.start or A.start > B.end + MIN_SPACING, in every
\* reachable state, whatever the interleaving of the sub-tasks.
C1_NoOverlap ==
    \A a, b \in DOMAIN active_segments :
        a # b =>
            \/ active_segments[a][2] + MIN_SPACING < active_segments[b][1]
            \/ active_segments[a][1] > active_segments[b][2] + MIN_SPACING

\* two sub-tasks hold a registered segment at the same time
C1_Witness ==
    /\ DOMAIN active_segments = {1, 2}
    /\ task[1].pc \in {"stay2", "fo_send", "fo_sleep"}
    /\ task[2].pc \in {"fi_send", "fi_sleep"}

\* C2: once the blackout frame of a stop() of a running effect is delivered,
\* no frame of the main routine or of a sub-task is delivered (until a
\* start() sets running again).
C2_BlackoutIsLast == afterStop # "lit"

\* C3: when stop() returns, running is false, active_tasks is empty, no task
\* is scheduled and _spawned_tasks holds no name.
C3_StopLeavesNothing ==
    [][\A c \in Callers :
         (Returns(c) /\ caller'[c].op = "stop" /\ caller'[c].result = "stopped")
         => /\ ~running'
            /\ active_tasks' = {}
            /\ \A n \in Names : task'[n].pc = "none"
            /\ spawned_tasks' = NoNames]_vars

\* C4: when stop() returns, active_segments is empty.
C4_StopEmptiesSegments ==
    [][\A c \in Callers :
         (Returns(c) /\ caller'[c].op = "stop" /\ caller'[c].result = "stopped")
         => active_segments' = <<>>]_vars

\* C5: a step that creates the main task is taken by a start() whose own
\* blackout frame was sent and answered before (delivered, unless the device
\* did not acknowledge it).
C5_BlackoutBeforeMain ==
    [][spawned_tasks'[MainName] > spawned_tasks[MainName]
       => \E c \in Callers :
            /\ Returns(c)
            /\ caller[c].op = "start"
            /\ caller'[c].result = "started"
            /\ caller[c].bo \in {"delivered", "lost"}]_vars

\* a start() has created the main task after its blackout frame was delivered
\* and the main task has spawned its first sub-task
C5_Witness ==
    /\ \E c \in Callers : caller[c].op = "start" /\ caller[c].result = "started"
    /\ task[MainName].pc = "stagger"
    /\ task[1].pc # "none"

\* C6, as stated: when start() returns after a failed verification, running
\* is false, no task is scheduled and this start() has sent no blackout frame.
C6_FailedStartIsIdle ==
    [][\A c \in Callers :
         (Returns(c) /\ caller'[c].result = "not_verified")
         => /\ ~running'
            /\ \A n \in Names : task'[n].pc = "none"
            /\ caller[c].bo = "none"]_vars

\* C6, amended: a start() whose verification fails (it leaves test_connection
\* with fewer than three acknowledged requests) returns in that step, and the
\* step leaves running, active_tasks, the scheduled tasks, the scheduler's
\* names, the HTTP session and the frames on the device as they were.
C6_FailedStartChangesNothing ==
    [][\A c \in Callers :
         (/\ caller[c].pc \in {"tc_get", "tc_ctl", "tc_sleep", "tc_seg"}
          /\ caller'[c].pc \notin {"tc_get", "tc_ctl", "tc_sleep", "tc_seg"}
          /\ caller'[c].acks < 3)
         => /\ caller'[c].pc = "done"
            /\ caller'[c].result = "not_verified"
            /\ running' = running
            /\ active_tasks' = active_tasks
            /\ task' = task
            /\ spawned_tasks' = spawned_tasks
            /\ shared_session' = shared_session
            /\ afterStop' = afterStop]_vars

\* the second of two calls, a restart of the running effect, has returned
\* after a failed verification; the blackout frame of its implicit stop() was
\* delivered
C6_Witness ==
    /\ ncalls = 2
    /\ caller[1].op = "start"
    /\ caller[1].result = "not_verified"
    /\ caller[2].op = "none"
    /\ afterStop = "dark"

\* C7: a stop() of an existing effect never ends before its blackout and its
\* cleanup: stop_effect does not return by the exception path.
C7_StopAlwaysCleans ==
    \A c \in Callers :
        (caller[c].op = "stop" /\ caller[c].pc = "done")
        => caller[c].result \in {"no_effect", "stopped"}

\* C8: a stop call made before any start() returns "nothing to stop" at once
\* and sends nothing.
C8_StopNeverStartedIsNoop ==
    \A c \in Callers :
        (caller[c].op = "stop" /\ ~started)
        => /\ caller[c].pc = "done"
           /\ caller[c].result = "no_effect"
           /\ ~caller[c].sent

\* The longest plain task.sleep (one that does not poll running before it
\* ends) a task can be suspended in at pc; the chunks of interruptible_sleep
\* are at most SLEEP_CHUNK.
PlainSleep(pc) ==
    CASE pc = "stagger" -> STAGGER_MAX
      [] pc = "idle" -> MAIN_LOOP_SLEEP
      [] pc \in {"fi_sleep", "fo_sleep"} -> STEP_DURATION
      [] pc \in {"delay", "stay1", "stay2"} -> SLEEP_CHUNK
      [] OTHER -> 0

\* C9: no task of the effect is suspended in a wait longer than 0.5 that
\* does not poll running.
C9_NoLongPlainSleep ==
    \A n \in Names : PlainSleep(task[n].pc) <= SLEEP_CHUNK

C11_FalseOnlyAfterAllAttempts ==
    (sd.pc = "returned" /\ ~sd.result) => sd.attempts = sd.retry_count + 1

\* C12: when the transport fails the first k < retry_count + 1 attempts and
\* acknowledges the next, the send returns True, success_count is one more
\* and fail_count is unchanged.
C12_SuccessAfterRetries ==
    (sd.pc = "returned" /\ sd.failFirst < sd.retry_count + 1)
    => /\ sd.result
       /\ sd.success_count = sd.success0 + 1
       /\ sd.fail_count = sd.fail0

\* C13: when the transport fails all the retry_count + 1 attempts, the send
\* returns False, fail_count is one more (whatever the number of attempts
\* made) and success_count is unchanged.
C13_FailureCountedOnce ==
    (sd.pc = "returned" /\ sd.failFirst >= sd.retry_count + 1)
    => /\ ~sd.result
       /\ sd.fail_count = sd.fail0 + 1
       /\ sd.success_count = sd.success0

\* three timed-out attempts of a second send, after a send that succeeded
C13_Witness ==
    /\ sd.pc = "returned"
    /\ sd.retry_count = 2
    /\ sd.attempts = 3
    /\ sd.outcome = "timeout"
    /\ sd.success0 = 1
    /\ ~sd.result

\* C14: a send makes at most retry_count + 1 attempts, none after an
\* acknowledged one, sleeps the backoff between two attempts and not after
\* the last, and returns True only if its last attempt was answered 200.
C14_BoundedAttempts ==
    /\ sd.attempts <= sd.retry_count + 1
    /\ sd.acked => (sd.pc = "returned" /\ sd.result)
    /\ sd.pc \in {"attempt", "returned"} =>
         /\ sd.backoffs = sd.attempts - 1
         /\ sd.waited = BACKOFF * (sd.attempts - 1)
    /\ sd.pc = "backoff" =>
         /\ sd.backoffs = sd.attempts
         /\ sd.attempts <= sd.retry_count
    /\ (sd.pc = "returned" /\ sd.result) => (sd.acked /\ sd.outcome = "200")

\* a send acknowledged at its third attempt, after two backoffs
C14_Witness ==
    /\ sd.pc = "returned"
    /\ sd.result
    /\ sd.attempts = 3
    /\ sd.backoffs = 2

\* C15: http.cleanup() never runs (the close of the shared session is never
\* in progress) while a service call or a task of the effect has a request
\* in flight, whatever the interleaving of start(), stop() and effect tasks.
C15_NoCleanupDuringRequest ==
    shared_session = "closing" =>
        /\ \A c \in Callers : ~CallerRequesting(c)
        /\ \A n \in Names : ~TaskRequesting(n)

\* C16: the client holds at most one connection: the connection the first
\* request created is the one in use until a cleanup has closed it, so the
\* client never goes from holding an open connection to holding none
\* without that connection having been closed.
C16_SingleConnection ==
    [][shared_session = "open" => shared_session' # "None"]_vars

\* C19: the scheduler's bookkeeping (_spawned_tasks) never holds a task name
\* twice, and segment names are pairwise distinct.
C19_NoNameTwice ==
    \A n \in Names : spawned_tasks[n] <= 1

\* C20: a wled_effect_configure call whose effect selector is not in the
\* effect map changes nothing: the loaded effect class, the effect instance,
\* its arguments, the state provider and the trigger settings are the same
\* after the call as before it, and an error is logged.
C20_UnknownSelectorChangesNothing ==
    [][(mg'.configures # mg.configures /\ mg'.selector \notin effect_map) =>
          /\ mg'.effect_class = mg.effect_class
          /\ effect' = effect
          /\ mg'.instances = mg.instances
          /\ mg'.effect_args = mg.effect_args
          /\ mg'.state_provider = mg.state_provider
          /\ mg'.trigger_entity = mg.trigger_entity
          /\ mg'.trigger_attribute = mg.trigger_attribute
          /\ mg'.trigger_on_change = mg.trigger_on_change
          /\ mg'.errors > mg.errors]_vars

\* an unknown selector was given to a manager configured with an effect, a
\* state provider and a trigger
C20_Witness ==
    /\ mg.configures = 2
    /\ mg.selector = UnknownEffect
    /\ effect = "StateSync"
    /\ mg.effect_class = "StateSync"
    /\ mg.state_provider = "sensor.level"
    /\ mg.trigger_entity = "sensor.level"
    /\ mg.trigger_on_change
    /\ mg.errors = 2

\* C17: handle_trigger starts a single-iteration run only when no run
\* (continuous or single-iteration, still awaiting) is in progress, and at
\* most one effect run is in progress at any time.
C17_AtMostOneRun ==
    [][/\ \A i \in Triggers :
            (tr.h[i].pc = "idle" /\ tr'.h[i].pc = "stagger")
                => RunsInProgress = 0
       /\ RunsInProgress' <= 1]_vars

C21_RejectedConfigureChangesNothing ==
    [][(mg'.configures # mg.configures /\ mg'.outcome = "no_state_provider") =>
          /\ mg'.effect_class = mg.effect_class
          /\ effect' = effect
          /\ mg'.instances = mg.instances
          /\ mg'.effect_args = mg.effect_args
          /\ mg'.trigger_entity = mg.trigger_entity
          /\ mg'.trigger_attribute = mg.trigger_attribute
          /\ mg'.trigger_on_change = mg.trigger_on_change]_vars

\* C24: kill_all_tasks() tries to cancel every name of the scheduler's list,
\* returns the number of cancellations that did not fail, leaves the list
\* empty and raises nothing; a cancellation that fails for one name does not
\* prevent the cancellation of the others.
C24_KillAllTasks ==
    ka.pc = "returned" =>
        /\ ~ka.raised
        /\ spawned_tasks = NoNames
        /\ ka.killed_count + Entries(ka.listed, ka.failing)
              = Entries(ka.listed, Names)
        /\ \A n \in Names : (ka.listed[n] > 0 /\ n \notin ka.failing) => ~Alive(n)

\* the cancellation of the first name failed, a later name was scheduled and
\* has been cancelled
C24_Witness ==
    /\ ka.pc = "returned"
    /\ ka.failing = {0}
    /\ ka.listed[0] = 1
    /\ ka.listed[2] = 2
    /\ 2 \in ka.alive
    /\ ~Alive(2)
    /\ Alive(0)
    /\ ka.killed_count = 2 + ka.listed[1]

\* C22: no exception raised inside the effect's start, stop or run_once
\* reaches the caller of the manager: start_effect, stop_effect and
\* run_once_effect return False, stop_all logs it and carries on to its
\* return.
C22_NoExceptionReachesCaller ==
    /\ \A c \in Callers :
         caller[c].pc = "done" =>
            /\ caller[c].ret # "exception"
            /\ caller[c].result = "raised" => caller[c].ret = "False"
            /\ caller[c].result = "stopped_all_raised" => caller[c].ret = "True"
    /\ \A i \in Triggers :
         tr.h[i].pc = "done" =>
            /\ tr.h[i].ret # "exception"
            /\ tr.h[i].result = "raised" => tr.h[i].ret = "False"

\* a stop_effect whose stop() raised has returned False, and so has the
\* run_once_effect of a trigger whose run_once raised
C22_Witness ==
    /\ caller[1].pc = "done"
    /\ caller[1].op = "stop"
    /\ caller[1].result = "raised"
    /\ caller[1].ret = "False"
    /\ tr.h[1].pc = "done"
    /\ tr.h[1].result = "raised"
    /\ tr.h[1].ret = "False"

\* C23: when stop_all() returns, the effect has running = false, the
\* scheduler's bookkeeping is empty and the connection is released, also
\* when stop() raised part-way.
C23_StopAllLeavesNothing ==
    [][\A c \in Callers :
          (Returns(c) /\ caller[c].op = "stop_all") =>
              /\ ~running'
              /\ spawned_tasks' = NoNames
              /\ shared_session' = "None"]_vars

\* C25 (original): with the target held constant, a transition from 0 to 100
\* over N steps renders exactly N+1 percentages, monotonically
\* non-decreasing, the first 0 and the last 100.
C25_TransitionSequence_original ==
    (st.pc = "returned" /\ st.from0 = 0 /\ st.to0 = 100 * Milli
        /\ st.changes = 0) =>
        /\ Len(st.rendered) = st.steps + 1
        /\ \A k \in 1..(Len(st.rendered) - 1) : st.rendered[k] <= st.rendered[k + 1]
        /\ st.rendered[1] = 0
        /\ st.rendered[Len(st.rendered)] = 100 * Milli

\* C25 (amended): with the target held constant and the effect running until
\* the transition returns, a transition from 0 to 100 over N steps renders
\* exactly N+1 percentages, monotonically non-decreasing, the first 0 and the
\* last 100.
C25_TransitionSequence ==
    (st.pc = "returned" /\ st.from0 = 0 /\ st.to0 = 100 * Milli
        /\ st.changes = 0 /\ st.running) =>
        /\ Len(st.rendered) = st.steps + 1
        /\ \A k \in 1..(Len(st.rendered) - 1) : st.rendered[k] <= st.rendered[k + 1]
        /\ st.rendered[1] = 0
        /\ st.rendered[Len(st.rendered)] = 100 * Milli

\* a transition from 0 to 100 over SYNC_TRANSITION_STEPS steps has returned
\* with the effect running and the target unchanged
C25_Witness ==
    /\ st.pc = "returned"
    /\ st.steps = SYNC_TRANSITION_STEPS
    /\ st.from0 = 0
    /\ st.to0 = 100 * Milli
    /\ st.changes = 0
    /\ st.running
    /\ Len(st.rendered) = SYNC_TRANSITION_STEPS + 1

\* C26: while running stays true, a skipped spawn attempt is eventually
\* followed by another spawn attempt: there is never a state where running
\* is true and no segment sub-task is alive or will ever be spawned again.
\* The main task spawns nothing once it is in its sleep loop, so in such a
\* state with running true some sub-task has to be alive.
C26_PopulationNeverDies ==
    (running /\ task[MainName].pc = "idle") => \E n \in SegNames : Alive(n)

\* C27: each entry of active_segments is owned by exactly one sub-task that
\* is still running: the entry of a sub-task that has ended, by fading out
\* or by being cancelled, is no longer in the set, so no stale entry blocks
\* the placement in a later epoch.
C27_EntriesOwned ==
    \A id \in DOMAIN active_segments : Alive(id)

\* C28: the blackout frame sets every addressable pixel of the strip to off:
\* it contains exactly one off pair for each relative index in
\* [0, last_index - first_index], the index space of the effect frames, and
\* no index outside that range.
C28_BlackoutFrame ==
    \A c \in Callers :
        caller[c].pc = "bo1" =>
            /\ Indices(blackout_led_array) = 0..(STOP_LED - START_LED)
            /\ Len(blackout_led_array) = STOP_LED - START_LED + 1
            /\ \A k \in 1..Len(blackout_led_array) :
                   blackout_led_array[k][2] = "000000"

\* C30: every frame a segment sub-task sends addresses exactly the relative
\* indices start - first_index .. end - first_index of its own registered
\* segment, all within the strip; it is sent only while the segment is
\* registered; the frames of two live sub-tasks address no common index.
C30_SegmentFrames ==
    \A n \in SegNames :
        TaskRequesting(n) =>
            /\ n \in DOMAIN active_segments
            /\ Indices(SegmentFrame(n)) =
                  (active_segments[n][1] - START_LED)..(active_segments[n][2] - START_LED)
            /\ Len(SegmentFrame(n)) = Cardinality(Indices(SegmentFrame(n)))
            /\ Indices(SegmentFrame(n)) \subseteq 0..(STOP_LED - START_LED)
            /\ \A m \in SegNames \ {n} :
                  (Alive(m) /\ m \in DOMAIN active_segments) =>
                      Indices(SegmentFrame(n)) \cap Indices(SegmentFrame(m)) = {}

\* two sub-tasks have a frame in flight at the same time, one of them for
\* the last LEDs of the strip
C30_Witness ==
    /\ task[1].pc = "fo_send"
    /\ task[2].pc = "fi_send"
    /\ DOMAIN active_segments = {1, 2}
    /\ active_segments[2][2] = STOP_LED

\* C29: blackout reports whether its frame was delivered and start() aborts
\* when it was not: a start() whose blackout frame was not delivered does
\* not schedule the main task.
C29_StartAbortsWithoutBlackout ==
    [][\A c \in Callers :
          (Returns(c) /\ caller'[c].result = "started") =>
              caller[c].bo = "delivered"]_vars

\* C31 (original): when the target changes partway through a transition, the
\* new transition starts at the current interpolated value and heads to the
\* new target: the first percentage rendered after the retarget is the
\* interpolated value at the step where the change was seen, and the last
\* percentage rendered is the new target.
C31_Retarget_original ==
    (st.pc = "returned" /\ Len(st.seen) > 0) =>
        /\ \A j \in 1..Len(st.seen) :
              Len(st.rendered) > st.seen[j].at =>
                  st.rendered[st.seen[j].at + 1] =
                      TransitionCurrent(st.seen[j].from_pct, st.seen[j].to_pct,
                                        st.seen[j].step, st.steps)
        /\ Len(st.rendered) > 0
        /\ st.rendered[Len(st.rendered)] = st.seen[Len(st.seen)].target

\* C31 (amended): the same, for a transition during which the effect keeps
\* running until it returns.
C31_Retarget ==
    (st.pc = "returned" /\ Len(st.seen) > 0 /\ st.running) =>
        /\ \A j \in 1..Len(st.seen) :
              Len(st.rendered) > st.seen[j].at =>
                  st.rendered[st.seen[j].at + 1] =
                      TransitionCurrent(st.seen[j].from_pct, st.seen[j].to_pct,
                                        st.seen[j].step, st.steps)
        /\ Len(st.rendered) > 0
        /\ st.rendered[Len(st.rendered)] = st.seen[Len(st.seen)].target

\* a transition from 0 to 100 was retargeted to 50 at its fourth poll, went on
\* from 30 and has returned with the effect running
C31_Witness ==
    /\ st.pc = "returned"
    /\ st.running
    /\ st.steps = SYNC_TRANSITION_STEPS
    /\ Len(st.seen) = 1
    /\ st.seen[1].step = 3
    /\ st.seen[1].at = 3
    /\ st.from0 = 0
    /\ st.to0 = 100 * Milli
    /\ st.rendered[4] = 30 * Milli
    /\ st.rendered[Len(st.rendered)] = 50 * Milli

C33_StartReportsOutcome ==
    [][\A c \in Callers :
          (Returns(c) /\ caller[c].op = "start") =>
              /\ caller'[c].ret = "True" => (running' /\ Alive(MainName)')
              /\ caller'[c].result = "not_verified" => caller'[c].ret = "False"]_vars

\* C34: for every base colour channel in 0..255, every fade step and
\* configured brightness in 0..255, the channel value put in a frame equals
\* floor(base * factor * brightness / 255) and lies in 0..255; the first
\* fade-in frame is fully off (ease(0) = 0), the last fade-in frame shows the
\* full base colour (ease(1) = 1), and the same inputs always give the same
\* frame.
C34_ChannelValue ==
    cv.pc \in {"computed", "again"} =>
        /\ cv.value = (cv.base * ease_in_out(cv.t) * cv.brightness) \div 255
        /\ cv.value \in 0..255
        /\ cv.t = 0 => cv.value = 0
        /\ (cv.t = 1 /\ cv.brightness = 255) => cv.value = cv.base
        /\ cv.pc = "again" => cv.again = cv.value

\* C35: in every reachable state success_count + fail_count <= command_count
\* and the difference is the number of send_wled_command calls in flight;
\* whenever no send is in flight, in particular after stop() cancelled all
\* tasks, command_count = success_count + fail_count.
C35_CountersBalance ==
    /\ cn.success_count + cn.fail_count <= cn.command_count
    /\ cn.command_count - (cn.success_count + cn.fail_count) = InFlight(cn)
    /\ InFlight(cn) = 0 => cn.command_count = cn.success_count + cn.fail_count

\* C36: between transitions of the state-sync effect current_percentage
\* equals the percentage last rendered and target_percentage equals the
\* target that rendering aimed at, also after a mid-flight retarget.
C36_FieldsMatchStrip ==
    (st.pc = "between" /\ st.running) =>
        /\ st.rendered # <<>>
        /\ st.current_percentage = st.rendered[Len(st.rendered)]
        /\ st.target_percentage = st.to_pct
====
